---- MODULE Spec2Model ----
(***************************************************************************)
(* A model of the parabox engine: the block store (insert / remove /      *)
(* place), the position queries, the rational sub-cell offsets, the cycle *)
(* detector and the movement algorithm behind World::push.                *)
(***************************************************************************)
EXTENDS Integers, Sequences, FiniteSets, TLC

VARIABLES
    blocks,     \* World.blocks : live key -> block record
    nextKey,    \* the next key the slot map hands out (keys are never reused)
    prev,       \* World.blocks as it was when the last operation was called
    last,       \* the last operation: its name, arguments, result and trace
    steps       \* number of calls made so far

vars == <<blocks, nextKey, prev, last, steps>>

-----------------------------------------------------------------------------
(* Bounds of the model.                                                    *)

\* number of push calls explored in one behaviour
MaxPushes == 2

\* number of insert, remove and place calls explored in one behaviour
MaxCalls == 4

\* number of blocks inserted in one behaviour
MaxKeys == 3

\* largest natural drawn as a numerator, denominator, operand or extent
MaxNat == 4

\* number of Rational operations applied in one behaviour
MaxOps == 2

-----------------------------------------------------------------------------
(* Option<BlockKey>::None; block keys are the integers from 1.             *)
None == 0

(* Direction and its two methods.                                          *)
Direction == {"North", "South", "East", "West"}

delta(d) ==
    CASE d = "North" -> <<0, 1>>
      [] d = "South" -> <<0, -1>>
      [] d = "East"  -> <<1, 0>>
      [] d = "West"  -> <<-1, 0>>

opposite(d) ==
    CASE d = "North" -> "South"
      [] d = "South" -> "North"
      [] d = "East"  -> "West"
      [] d = "West"  -> "East"

-----------------------------------------------------------------------------
(* Rational: numerator / denominator, kept coprime by the constructors.    *)

RECURSIVE gcd(_, _)
gcd(a, b) == IF b = 0 THEN a ELSE gcd(b, a % b)

RationalNew(n, d) ==
    LET g == gcd(n, d)
    IN  [numerator |-> n \div g, denominator |-> d \div g]

unchecked_new(n, d) == [numerator |-> n, denominator |-> d]

HALF == unchecked_new(1, 2)

\* impl Add<usize> for Rational
RationalAddInt(r, k) ==
    unchecked_new(r.numerator + k * r.denominator, r.denominator)

\* impl Sub<usize> for Rational (k * denominator <= numerator, or the
\* usize subtraction overflows)
RationalSubInt(r, k) ==
    unchecked_new(r.numerator - k * r.denominator, r.denominator)

\* a product with a natural that does not cancel the common factor
RationalMulIntUnreduced(r, k) == unchecked_new(r.numerator * k, r.denominator)

\* impl Mul<usize> for Rational
RationalMulInt(r, k) ==
    LET d == gcd(k, r.denominator)
    IN  unchecked_new((r.numerator * k) \div d, r.denominator \div d)

\* a quotient by a natural that does not cancel the common factor
RationalDivIntUnreduced(r, k) == unchecked_new(r.numerator, r.denominator * k)

\* impl Div<usize> for Rational (k # 0, asserted by the code)
RationalDivInt(r, k) ==
    LET d == gcd(r.numerator, k)
    IN  unchecked_new(r.numerator \div d, (r.denominator * k) \div d)

\* impl Add for Rational
RationalAdd(r, s) ==
    RationalNew(r.numerator * s.denominator + s.numerator * r.denominator,
                r.denominator * s.denominator)

\* impl Sub for Rational (s <= r, or the usize subtraction overflows)
RationalSub(r, s) ==
    RationalNew(r.numerator * s.denominator - s.numerator * r.denominator,
                r.denominator * s.denominator)

\* impl Mul for Rational
RationalMul(r, s) ==
    RationalNew(r.numerator * s.numerator, r.denominator * s.denominator)

\* impl Div for Rational (s.numerator # 0, asserted by the code)
RationalDiv(r, s) ==
    RationalNew(r.numerator * s.denominator, r.denominator * s.numerator)

\* Rational::split : <<integer part, fractional part>>
split(r) ==
    <<r.numerator \div r.denominator,
      unchecked_new(r.numerator % r.denominator, r.denominator)>>

-----------------------------------------------------------------------------
(* Prototypes.                                                             *)

Wall == [type |-> "Wall", size |-> <<0, 0>>, reference |-> None]
Box(sz) == [type |-> "Box", size |-> sz, reference |-> None]
Alias(ref) == [type |-> "Alias", size |-> <<0, 0>>, reference |-> ref]
Infinity(ref) == [type |-> "Infinity", size |-> <<0, 0>>, reference |-> ref]
Epsilon(sz, ref) == [type |-> "Epsilon", size |-> sz, reference |-> ref]
Void(sz) == [type |-> "Void", size |-> sz, reference |-> None]

\* ProtoType::size : Size::default() for the variants without a size
size(proto) ==
    IF proto.type \in {"Box", "Epsilon", "Void"} THEN proto.size ELSE <<0, 0>>

width(proto) == size(proto)[1]
height(proto) == size(proto)[2]

is_solid(proto) == proto.type \in {"Wall", "Alias", "Infinity"}
is_hollow(proto) == proto.type \in {"Box", "Epsilon", "Void"}
\* an is_static that forgets the Void
is_static_wall(proto) == proto.type = "Wall"

is_static(proto) == proto.type \in {"Wall", "Void"}
is_void(proto) == proto.type = "Void"

\* ProtoType::contains
contains(proto, p) == p[1] < width(proto) /\ p[2] < height(proto)

-----------------------------------------------------------------------------
(* Positions, block records.                                               *)

Inside(c, p) == [container |-> c, pos |-> p]
Orphan == [container |-> None, pos |-> <<0, 0>>]

Cells(sz) == (0 .. sz[1] - 1) \X (0 .. sz[2] - 1)

\* State::new : orphan, every interior cell None
StateNew(sz) ==
    [position |-> Orphan, interior |-> [c \in Cells(sz) |-> None]]

InfoDefault == [references |-> {}, infinity |-> None, epsilon |-> None]

\* Block::new
BlockNew(key, proto) ==
    [key |-> key, proto |-> proto, state |-> StateNew(size(proto)),
     info |-> InfoDefault]

-----------------------------------------------------------------------------
(* The block store: World::insert and World::place on the blocks map.      *)

\* World::insert : the block is stored under a fresh key, then the
\* back-reference of the referred block is written
insert(b, key, proto) ==
    LET b1 == [k \in DOMAIN b \cup {key} |->
                  IF k = key THEN BlockNew(key, proto) ELSE b[k]]
        r  == proto.reference
    IN  CASE proto.type = "Alias" ->
               [b1 EXCEPT ![r].info.references = @ \cup {key}]
          [] proto.type = "Infinity" ->
               [b1 EXCEPT ![r].info.infinity = key]
          [] proto.type = "Epsilon" ->
               [b1 EXCEPT ![r].info.epsilon = key]
          [] OTHER -> b1

\* a place that leaves the block in the cell it came from
place_keep_old(b, key, position) ==
    LET b2 == IF position.container # None
              THEN [b EXCEPT ![position.container].state.interior[position.pos] = key]
              ELSE b
    IN  [b2 EXCEPT ![key].state.position = position]

\* World::place : clear the old cell, write the new cell, set the position
place(b, key, position) ==
    LET cur == b[key].state.position
        b1  == IF cur.container # None
               THEN [b EXCEPT ![cur.container].state.interior[cur.pos] = None]
               ELSE b
        b2  == IF position.container # None
               THEN [b1 EXCEPT ![position.container].state.interior[position.pos] = key]
               ELSE b1
    IN  [b2 EXCEPT ![key].state.position = position]

-----------------------------------------------------------------------------
(* Position queries.                                                       *)

\* World::position
position(b, key) == b[key].state.position

\* World::position_state
position_state(b, p) ==
    IF p.container # None
    THEN IF contains(b[p.container].proto, p.pos)
         THEN IF b[p.container].state.interior[p.pos] # None
              THEN [state |-> "Present", key |-> b[p.container].state.interior[p.pos]]
              ELSE [state |-> "Empty", key |-> None]
         ELSE [state |-> "OutofBound", key |-> None]
    ELSE [state |-> "Void", key |-> None]

\* Position::is_in_void
is_in_void(b, p) ==
    IF p.container # None THEN is_void(b[p.container].proto) ELSE FALSE

-----------------------------------------------------------------------------
(* Cycle<T, V>: an ordered trace of <<key, value>> pairs.                  *)

\* the maximum length of a trace
TRACE_BURN == 1000

\* the unit value () stored by the detectors that carry no value
Unit == "()"

CycleNew == << >>

\* a search that looks at the last entry of the trace only
CycleIndexOfLast(trace, key) ==
    IF trace # << >> /\ trace[Len(trace)][1] = key THEN Len(trace) ELSE 0

\* trace.iter().position(|x| x.0 == key), counted from 1; 0 for None
CycleIndex(trace, key) ==
    IF \E i \in 1 .. Len(trace) : trace[i][1] = key
    THEN CHOOSE i \in 1 .. Len(trace) :
            /\ trace[i][1] = key
            /\ \A j \in 1 .. i - 1 : trace[j][1] # key
    ELSE 0

\* Cycle::push : the stored value of an earlier entry with this key, or the
\* trace with the pair appended
\* (burns: the trace has grown past TRACE_BURN and the code panics)
CyclePush(trace, key, value) ==
    LET i == CycleIndex(trace, key)
    IN  IF i # 0
        THEN [found |-> TRUE, value |-> trace[i][2], trace |-> trace,
              burns |-> FALSE]
        ELSE [found |-> FALSE, value |-> value,
              trace |-> Append(trace, <<key, value>>),
              burns |-> TRACE_BURN > 0 /\ Len(trace) + 1 > TRACE_BURN]

\* Cycle::pop on a non-empty trace: the trace without its last entry
CyclePop(trace) == SubSeq(trace, 1, Len(trace) - 1)

CycleLast(trace) == trace[Len(trace)]

-----------------------------------------------------------------------------
(* The movement algorithm.  An Algorithm value is                          *)
(*   [trace, movements, positioned, entered, cycled, resolved, exits,      *)
(*    eats, pushes, raised];                                               *)
(* entered is the record the #[trace_func] attribute of MoveProcessor::enter *)
(* keeps: every call with its argument and its result, in call order, and  *)
(* the key of the push_into call that made it;                             *)
(* cycled is what push_into writes with debug!("cycle: ..") when it finds  *)
(* its key on the trace: the key and the trace; resolved has an entry for  *)
(* every enter attempt that push_into finds in its detector: the attempt,  *)
(* the detector, and what the epsilon loop made of it; exits is the record *)
(* #[trace_func] keeps of MoveProcessor::exit: the argument of every call; *)
(* eats has an entry for every push_into(ate, .., true) of an eat loop;    *)
(* pushes has an entry for every self.push(info.into, ..) that a push_into *)
(* call makes for the resident of its target cell.  The entries of eats    *)
(* and pushes name the caller of the push_into call that made them (the    *)
(* eater, when that call was made with eating = true).  raised has an      *)
(* entry for every MoveError that is made: the error, and the number of    *)
(* entries entered, eats and pushes have at that moment.                   *)
(* arrows has an entry for every iteration of the loop of push_from: the   *)
(* source arrow, whether it is the first of the call, and what             *)
(* source_to_target made of it; intos has an entry for every call of       *)
(* push_into: its arguments and the trace at entry; confirmed has an entry *)
(* for every call of confirm: its arguments, whether the movement was      *)
(* recorded, and the length of the movement list at that moment.  The      *)
(* entries of eats and pushes carry what the Algorithm holds when the call *)
(* returns, and the trace at its entry.                                    *)
(* every step returns [r, err, alg] with r one of "true", "false", "err"   *)
(* (a MoveError, in err) and "panic" (the code aborts).                    *)

\* Algorithm::new
AlgorithmNew ==
    [trace |-> CycleNew, movements |-> << >>, positioned |-> {}, entered |-> << >>,
     cycled |-> << >>, resolved |-> << >>, exits |-> << >>, eats |-> << >>,
     pushes |-> << >>, raised |-> << >>, arrows |-> << >>, intos |-> << >>,
     confirmed |-> << >>]

NoError == [kind |-> "None", key |-> None]
MoveError(kind, key) == [kind |-> kind, key |-> key]

Ok(bool, alg) ==
    [r |-> IF bool THEN "true" ELSE "false", err |-> NoError, alg |-> alg]
Err(kind, key, alg) ==
    [r |-> "err", err |-> MoveError(kind, key),
     alg |-> [alg EXCEPT !.raised =
                 Append(@, [err |-> MoveError(kind, key), entered |-> Len(alg.entered),
                            eats |-> Len(alg.eats), pushes |-> Len(alg.pushes)])]]
Panic(alg) == [r |-> "panic", err |-> MoveError("Panic", None), alg |-> alg]

SourceArrow(p, d, precise) == [position |-> p, direction |-> d, precise |-> precise]
TargetArrow(p, d, precise) == [position |-> p, direction |-> d, precise |-> precise]
ExitInfo(from, d, precise) == [from |-> from, direction |-> d, precise |-> precise]
EnterInfo(into, d, precise) == [into |-> into, direction |-> d, precise |-> precise]
Movement(key, target) == [key |-> key, target |-> target]

\* a source_to_target that takes the offset of an exit from the coordinate
\* along the direction of the move
source_to_target_along(b, source) ==
    LET x == source.position.pos[1] + delta(source.direction)[1]
        y == source.position.pos[2] + delta(source.direction)[2]
        container == source.position.container
        w == width(b[container].proto)
        h == height(b[container].proto)
        offset == IF source.direction \in {"North", "South"} THEN y ELSE x
        total  == IF source.direction \in {"North", "South"} THEN h ELSE w
    IN  IF x < 0 \/ y < 0 \/ x >= w \/ y >= h
        THEN [ok |-> FALSE,
              info |-> ExitInfo(container, source.direction,
                         RationalDivInt(RationalAddInt(source.precise, offset), total))]
        ELSE [ok |-> TRUE,
              target |-> TargetArrow(Inside(container, <<x, y>>),
                                     source.direction, source.precise)]

\* Algorithm::source_to_target : the target arrow inside the container
\* (ok), or the exit info when the neighbour cell is out of bounds
source_to_target(b, source) ==
    LET x == source.position.pos[1] + delta(source.direction)[1]
        y == source.position.pos[2] + delta(source.direction)[2]
        container == source.position.container
        w == width(b[container].proto)
        h == height(b[container].proto)
        offset == IF source.direction \in {"North", "South"} THEN x ELSE y
        total  == IF source.direction \in {"North", "South"} THEN w ELSE h
    IN  IF x < 0 \/ y < 0 \/ x >= w \/ y >= h
        THEN [ok |-> FALSE,
              info |-> ExitInfo(container, source.direction,
                         RationalDivInt(RationalAddInt(source.precise, offset), total))]
        ELSE [ok |-> TRUE,
              target |-> TargetArrow(Inside(container, <<x, y>>),
                                     source.direction, source.precise)]

\* Algorithm::target_to_movement : the movement (ok) when the target cell is
\* empty, the movement and the enter info when it is taken; any other
\* position state is the code's unreachable!()
target_to_movement(b, key, target) ==
    LET ps == position_state(b, target.position)
    IN  [state |-> ps.state,
         movement |-> Movement(key, target.position),
         info |-> EnterInfo(ps.key, target.direction, target.precise)]

\* a confirm that records every movement
confirm_every(alg, movement, cycling) ==
    Ok(TRUE, [alg EXCEPT !.confirmed =
                     Append(@, [movement |-> movement, cycling |-> cycling,
                                recorded |-> TRUE, at |-> Len(alg.movements)]),
                         !.movements = Append(@, movement),
                         !.positioned = @ \cup {movement.target}])

\* Algorithm::confirm
confirm(alg, movement, cycling) ==
    LET blocked == cycling /\ movement.target \in alg.positioned
        noted == [alg EXCEPT !.confirmed =
                     Append(@, [movement |-> movement, cycling |-> cycling,
                                recorded |-> ~blocked, at |-> Len(alg.movements)])]
    IN  IF ~blocked
        THEN Ok(TRUE, [noted EXCEPT !.movements = Append(@, movement),
                                    !.positioned = @ \cup {movement.target}])
        ELSE Ok(TRUE, noted)

\* an exit that finds no container to exit into
exit_nowhere(b, info) == [ok |-> FALSE, err |-> MoveError("Orphan", info.from)]

\* MoveProcessor::exit
exit(b, info) ==
    LET p == b[info.from].state.position
    IN  IF p.container = None
        THEN [ok |-> FALSE, err |-> MoveError("Orphan", info.from)]
        ELSE [ok |-> TRUE, source |-> SourceArrow(p, info.direction, info.precise)]

\* an alias chase that stops after the first reference
alias_once(b, info) ==
    IF b[info.into].proto.type = "Alias"
    THEN EnterInfo(b[info.into].proto.reference, info.direction, info.precise)
    ELSE info

\* MoveProcessor::alias : chase the reference chain to the first non-alias
RECURSIVE alias(_, _)
alias(b, info) ==
    IF b[info.into].proto.type = "Alias"
    THEN alias(b, EnterInfo(b[info.into].proto.reference, info.direction, info.precise))
    ELSE info

\* MoveProcessor::enter : the landing arrow inside info.into; none for a
\* solid block; the usize subtraction height - 1 / width - 1 aborts on 0
enter(b, info) ==
    LET proto == b[info.into].proto
        d == info.direction
        tangent == CASE d = "North" -> 0
                     [] d = "South" -> height(proto) - 1
                     [] d = "East"  -> 0
                     [] d = "West"  -> width(proto) - 1
        normal == IF d \in {"North", "South"} THEN width(proto) ELSE height(proto)
        sp == split(RationalMulInt(info.precise, normal))
        pos == IF d \in {"North", "South"} THEN <<sp[1], tangent>> ELSE <<tangent, sp[1]>>
    IN  IF is_solid(proto) THEN [some |-> FALSE, panic |-> FALSE]
        ELSE IF tangent < 0 THEN [some |-> FALSE, panic |-> TRUE]
        ELSE [some |-> TRUE, panic |-> FALSE,
              next |-> TargetArrow(Inside(info.into, pos), d, sp[2])]

\* MoveProcessor::eat : the eaten block enters the eater from the opposite side
eat(eat_info) == EnterInfo(eat_info.eat, opposite(eat_info.direction), HALF)

\* an exit loop that reports the container it comes back to as an orphan
RECURSIVE resolve_exit_as_orphan(_, _, _)
resolve_exit_as_orphan(b, cycle, info) ==
    LET c == CyclePush(cycle, info.from, info.precise)
    IN  IF c.found
        THEN IF b[info.from].info.infinity = None
             THEN [r |-> "err", err |-> MoveError("Orphan", info.from)]
             ELSE resolve_exit_as_orphan(b, cycle,
                     ExitInfo(b[info.from].info.infinity, info.direction, c.value))
        ELSE IF c.burns THEN [r |-> "panic"]
        ELSE [r |-> "ok", cycle |-> c.trace, info |-> info]

\* an infinity substitution that keeps the precise of the repeated visit
RECURSIVE resolve_exit_repeated_precise(_, _, _)
resolve_exit_repeated_precise(b, cycle, info) ==
    LET c == CyclePush(cycle, info.from, info.precise)
    IN  IF c.found
        THEN IF b[info.from].info.infinity = None
             THEN [r |-> "err", err |-> MoveError("NoInfinity", info.from)]
             ELSE resolve_exit_repeated_precise(b, cycle,
                     ExitInfo(b[info.from].info.infinity, info.direction, info.precise))
        ELSE IF c.burns THEN [r |-> "panic"]
        ELSE [r |-> "ok", cycle |-> c.trace, info |-> info]

\* the `while let Some(original) = cycle.push(..)` loop of push_from: the
\* exit info after the infinity substitutions, and the grown detector
RECURSIVE resolve_exit(_, _, _)
resolve_exit(b, cycle, info) ==
    LET c == CyclePush(cycle, info.from, info.precise)
    IN  IF c.found
        THEN IF b[info.from].info.infinity = None
             THEN [r |-> "err", err |-> MoveError("NoInfinity", info.from)]
             ELSE resolve_exit(b, cycle,
                     ExitInfo(b[info.from].info.infinity, info.direction, c.value))
        ELSE IF c.burns THEN [r |-> "panic"]
        ELSE [r |-> "ok", cycle |-> c.trace, info |-> info]

\* an epsilon loop that never substitutes: every repeated attempt is an error
resolve_enter_no_substitution(b, cycle, info) ==
    LET c == CyclePush(cycle, info, Unit)
    IN  IF c.found
        THEN [r |-> "err", err |-> MoveError("NoEpsilon", info.into)]
        ELSE IF c.burns THEN [r |-> "panic"]
        ELSE [r |-> "ok", cycle |-> c.trace, info |-> info]

\* the `while cycle.push(info, ()).is_some()` loop of push_into
RECURSIVE resolve_enter(_, _, _)
resolve_enter(b, cycle, info) ==
    LET c == CyclePush(cycle, info, Unit)
    IN  IF c.found
        THEN IF b[info.into].info.epsilon = None
             THEN [r |-> "err", err |-> MoveError("NoEpsilon", info.into)]
             ELSE resolve_enter(b, cycle,
                     EnterInfo(b[info.into].info.epsilon, info.direction, info.precise))
        ELSE IF c.burns THEN [r |-> "panic"]
        ELSE [r |-> "ok", cycle |-> c.trace, info |-> info]

\* what the epsilon loop returns: a MoveError, or the attempt to make
Resolution(re) ==
    CASE re.r = "err" -> [r |-> "err", err |-> re.err]
      [] re.r = "ok" -> [r |-> "ok", info |-> re.info]
      [] OTHER -> [r |-> re.r]

\* the key of the push_into call below the call for `key` on the call stack
\* (the trace holds the keys of the calls that have not returned false)
Caller(trace, key) ==
    IF CycleIndex(trace, key) > 1 THEN trace[CycleIndex(trace, key) - 1][1] ELSE None

\* the record of an eat attempt: the eater, the enter attempts left in its
\* detector (the last one names the block to eat), and the result
\* what the Algorithm holds when a nested call returns `res`, with the
\* trace `entry` the call started from
Returned(res, entry) ==
    [movements |-> res.alg.movements, positioned |-> res.alg.positioned,
     trace |-> res.alg.trace, entry |-> entry, entered |-> Len(res.alg.entered),
     eats |-> Len(res.alg.eats), pushes |-> Len(res.alg.pushes),
     intos |-> Len(res.alg.intos)]

Eaten(res, key, eating, cycle, entry) ==
    [res.alg EXCEPT !.eats =
        Append(@, [eat |-> key, ate |-> CycleLast(cycle)[1].into, eating |-> eating,
                   cycle |-> cycle, result |-> res.r,
                   caller |-> Caller(res.alg.trace, key),
                   returned |-> Returned(res, entry)])]

\* the record of a push of the resident `of` of the target cell: the
\* pushing block, the enter attempts it has made so far, and the result
Pushing(res, key, of, eating, cycle, entry) ==
    [res EXCEPT !.alg.pushes =
        Append(@, [by |-> key, of |-> of, eating |-> eating, cycle |-> cycle,
                   result |-> res.r, caller |-> Caller(res.alg.trace, key),
                   returned |-> Returned(res, entry)])]

RECURSIVE push_from_loop(_, _, _, _, _)
RECURSIVE push_from_loop_orphan_blocked(_, _, _, _, _)
RECURSIVE push_into(_, _, _, _, _)
RECURSIVE push_into_loop(_, _, _, _, _, _, _)
RECURSIVE eat_loop(_, _, _, _, _)
RECURSIVE eat_loop_ate(_, _, _, _, _, _)
RECURSIVE push_into_pushed(_, _, _, _, _, _)
RECURSIVE push_into_enter(_, _, _, _, _, _)
RECURSIVE AlgorithmPush(_, _, _, _)

\* a push_from that takes the edge of an orphan container for a wall
push_from_loop_orphan_blocked(b, alg, key, cycle, current) ==
    LET st == source_to_target(b, current)
    IN  IF st.ok
        THEN push_into(b, alg, key, st.target, FALSE)
        ELSE LET re == resolve_exit(b, cycle, st.info)
             IN  CASE re.r = "err" -> Err(re.err.kind, re.err.key, alg)
                   [] re.r = "panic" -> Panic(alg)
                   [] OTHER ->
                        IF is_void(b[re.info.from].proto)
                        THEN Ok(FALSE, alg)
                        ELSE LET ex == exit(b, re.info)
                                 traced == [alg EXCEPT !.exits = Append(@, re.info)]
                             IN  IF ex.ok
                                 THEN push_from_loop_orphan_blocked(b, traced, key,
                                                                    re.cycle, ex.source)
                                 ELSE Ok(FALSE, traced)

\* Algorithm::push_from : one iteration of its loop, with the exit detector
\* `cycle` and the source arrow `current`
push_from_loop(b, alg0, key, cycle, current) ==
    LET st == source_to_target(b, current)
        alg == [alg0 EXCEPT !.arrows =
                   Append(@, [key |-> key, source |-> current,
                              first |-> cycle = CycleNew, out |-> st])]
    IN  IF st.ok
        THEN push_into(b, alg, key, st.target, FALSE)
        ELSE LET re == resolve_exit(b, cycle, st.info)
             IN  CASE re.r = "err" -> Err(re.err.kind, re.err.key, alg)
                   [] re.r = "panic" -> Panic(alg)
                   [] OTHER ->
                        IF is_void(b[re.info.from].proto)
                        THEN Ok(FALSE, alg)
                        ELSE LET ex == exit(b, re.info)
                                 traced == [alg EXCEPT !.exits = Append(@, re.info)]
                             IN  IF ex.ok
                                 THEN push_from_loop(b, traced, key, re.cycle, ex.source)
                                 ELSE Err(ex.err.kind, ex.err.key, traced)

push_from(b, alg, key, source) == push_from_loop(b, alg, key, CycleNew, source)

\* an eat loop that leaves the key of the call on the trace when it fails
eat_loop_unpopped(b, alg, key, eating, cycle) ==
    IF Len(cycle) = 0 \/ (eating /\ Len(cycle) = 1)
    THEN Ok(FALSE, alg)
    ELSE LET info == CycleLast(cycle)[1]
             eat_info == [eat |-> key, ate |-> info.into, direction |-> info.direction]
         IN  IF is_static(b[eat_info.ate].proto)
             THEN eat_loop(b, alg, key, eating, CyclePop(cycle))
             ELSE LET enter_info == eat(eat_info)
                      enter_target ==
                          TargetArrow(b[enter_info.into].state.position,
                                      enter_info.direction, enter_info.precise)
                  IN  eat_loop_ate(b, push_into(b, alg, eat_info.ate, enter_target, TRUE),
                                   key, eating, cycle, alg.trace)

\* the eat loop at the end of Algorithm::push_into, then trace.pop()
eat_loop(b, alg, key, eating, cycle) ==
    IF Len(cycle) = 0 \/ (eating /\ Len(cycle) = 1)
    THEN Ok(FALSE, [alg EXCEPT !.trace = CyclePop(@)])
    ELSE LET info == CycleLast(cycle)[1]
             eat_info == [eat |-> key, ate |-> info.into, direction |-> info.direction]
         IN  IF is_static(b[eat_info.ate].proto)
             THEN eat_loop(b, alg, key, eating, CyclePop(cycle))
             ELSE LET enter_info == eat(eat_info)
                      enter_target ==
                          TargetArrow(b[enter_info.into].state.position,
                                      enter_info.direction, enter_info.precise)
                  IN  eat_loop_ate(b, push_into(b, alg, eat_info.ate, enter_target, TRUE),
                                   key, eating, cycle, alg.trace)

\* the rest of an iteration of the eat loop, with the result `res` of
\* push_into(eat_info.ate, enter_target, true)
eat_loop_ate(b, res, key, eating, cycle, entry) ==
    CASE res.r = "true" ->
           confirm(Eaten(res, key, eating, cycle, entry),
                   Movement(key, b[CycleLast(cycle)[1].into].state.position), TRUE)
      [] res.r = "false" ->
           eat_loop(b, Eaten(res, key, eating, cycle, entry), key, eating,
                    CyclePop(cycle))
      [] OTHER -> res

\* one iteration of the push / enter loop of Algorithm::push_into
push_into_loop(b, alg, key, eating, cycle, current, can_push) ==
    LET tm == target_to_movement(b, key, current)
    IN  CASE tm.state = "Empty" -> confirm(alg, tm.movement, FALSE)
          [] tm.state = "Present" ->
               push_into_pushed(b, IF can_push
                                   THEN Pushing(AlgorithmPush(b, alg, tm.info.into,
                                                              tm.info.direction),
                                                key, tm.info.into, eating, cycle,
                                                alg.trace)
                                   ELSE Ok(FALSE, alg),
                                key, eating, cycle, tm)
          [] OTHER -> Panic(alg)

\* a push_into that takes an error of the push of the resident for Ok(false)
push_into_pushed_unchecked(b, pushed, key, eating, cycle, tm) ==
    CASE pushed.r = "true" -> confirm(pushed.alg, tm.movement, TRUE)
      [] pushed.r \in {"false", "err"} ->
           IF is_in_void(b, tm.movement.target)
           THEN eat_loop(b, pushed.alg, key, eating, cycle)
           ELSE push_into_enter(b, pushed.alg, key, eating, cycle, alias(b, tm.info))
      [] OTHER -> pushed

\* the rest of the iteration, with the result `pushed` of the push of the
\* resident of the target cell
push_into_pushed(b, pushed, key, eating, cycle, tm) ==
    CASE pushed.r = "true" -> confirm(pushed.alg, tm.movement, TRUE)
      [] pushed.r = "false" ->
           IF is_in_void(b, tm.movement.target)
           THEN eat_loop(b, pushed.alg, key, eating, cycle)
           ELSE push_into_enter(b, pushed.alg, key, eating, cycle, alias(b, tm.info))
      [] OTHER -> pushed

\* the epsilon loop and the enter of the iteration, for the enter attempt
\* `attempt`
push_into_enter(b, alg, key, eating, cycle, attempt) ==
    LET re == resolve_enter(b, cycle, attempt)
        noted == IF CycleIndex(cycle, attempt) # 0
                 THEN [alg EXCEPT !.resolved =
                         Append(@, [info |-> attempt, cycle |-> cycle,
                                    result |-> Resolution(re)])]
                 ELSE alg
    IN  CASE re.r = "err" -> Err(re.err.kind, re.err.key, noted)
          [] re.r = "panic" -> Panic(noted)
          [] OTHER ->
               LET en == enter(b, re.info)
                   traced == [noted EXCEPT !.entered =
                                 Append(@, [by |-> key, info |-> re.info, result |-> en])]
               IN  IF en.panic THEN Panic(traced)
                   ELSE IF en.some
                   THEN push_into_loop(b, traced, key, eating, re.cycle, en.next, TRUE)
                   ELSE eat_loop(b, traced, key, eating, re.cycle)

\* a push_into that tries to enter the resident before it tries to push it
push_into_enter_first(b, alg, key, target, eating) ==
    LET t == CyclePush(alg.trace, key, Unit)
    IN  IF t.found
        THEN Ok(TRUE, [alg EXCEPT !.cycled =
                          Append(@, [key |-> key, trace |-> alg.trace])])
        ELSE IF t.burns THEN Panic(alg)
        ELSE push_into_loop(b, [alg EXCEPT !.trace = t.trace], key, eating,
                            CycleNew, target, FALSE)

\* Algorithm::push_into
push_into(b, alg0, key, target, eating) ==
    LET t == CyclePush(alg0.trace, key, Unit)
        alg == [alg0 EXCEPT !.intos =
                   Append(@, [key |-> key, target |-> target, eating |-> eating,
                              trace |-> alg0.trace])]
    IN  IF t.found
        THEN Ok(TRUE, [alg EXCEPT !.cycled =
                          Append(@, [key |-> key, trace |-> alg.trace])])
        ELSE IF t.burns THEN Panic(alg)
        ELSE push_into_loop(b, [alg EXCEPT !.trace = t.trace], key, eating,
                            CycleNew, target, ~eating)

\* a push that treats an orphan block as a blocked one
AlgorithmPushOrphanBlocked(b, alg, key, direction) ==
    IF is_static(b[key].proto) THEN Ok(FALSE, alg)
    ELSE IF b[key].state.position.container = None THEN Ok(FALSE, alg)
    ELSE push_from(b, alg, key, SourceArrow(b[key].state.position, direction, HALF))

\* Algorithm::push
AlgorithmPush(b, alg, key, direction) ==
    IF is_static(b[key].proto) THEN Ok(FALSE, alg)
    ELSE IF b[key].state.position.container = None THEN Err("Orphan", key, alg)
    ELSE push_from(b, alg, key, SourceArrow(b[key].state.position, direction, HALF))

\* a commit that gives the moved block a new State at the target
RECURSIVE commit_new_state(_, _)
commit_new_state(b, movements) ==
    IF movements = << >> THEN b
    ELSE commit_new_state(
             [b EXCEPT ![Head(movements).key].state =
                 [StateNew(size(b[Head(movements).key].proto)) EXCEPT
                     !.position = Head(movements).target]],
             Tail(movements))

\* Algorithm::commit : the recorded positions are written in list order
RECURSIVE commit(_, _)
commit(b, movements) ==
    IF movements = << >> THEN b
    ELSE commit([b EXCEPT ![Head(movements).key].state.position = Head(movements).target],
                Tail(movements))

\* what World::push hands back for the result `res` of Algorithm::push:
\* the MoveResult, the records kept during the call, the movement list of
\* the Algorithm, and the blocks map, committed when the result is Ok(true)
Outcome(b, res) ==
    [result |-> [r |-> res.r, err |-> res.err],
     entered |-> res.alg.entered,
     cycled |-> res.alg.cycled,
     resolved |-> res.alg.resolved,
     exits |-> res.alg.exits,
     eats |-> res.alg.eats,
     pushes |-> res.alg.pushes,
     raised |-> res.alg.raised,
     movements |-> res.alg.movements,
     positioned |-> res.alg.positioned,
     trace |-> res.alg.trace,
     arrows |-> res.alg.arrows,
     intos |-> res.alg.intos,
     confirmed |-> res.alg.confirmed,
     blocks |-> IF res.r = "true" THEN commit(b, res.alg.movements) ELSE b]

\* a one-phase push: the pushed block is moved to its neighbour cell before
\* the recursion has decided, and is not moved back when the push fails
WorldPushInPlace(b, key, direction) ==
    LET out == Outcome(b, AlgorithmPush(b, AlgorithmNew, key, direction))
        p   == b[key].state.position
        st  == source_to_target(b, SourceArrow(p, direction, HALF))
    IN  IF out.result.r # "true" /\ ~is_static(b[key].proto) /\ p.container # None /\ st.ok
        THEN [out EXCEPT !.blocks = [b EXCEPT ![key].state.position = st.target.position]]
        ELSE out

\* World::push : [result, blocks], with the records kept during the call
WorldPush(b, key, direction) ==
    Outcome(b, AlgorithmPush(b, AlgorithmNew, key, direction))

-----------------------------------------------------------------------------
(* The worlds the behaviours start from.  Each one is built the way a      *)
(* caller builds it: by World::insert and World::place on a new world.     *)

\* World::new
WorldNew == [blocks |-> << >>, next |-> 1]

WInsert(w, proto) ==
    [blocks |-> insert(w.blocks, w.next, proto), next |-> w.next + 1]

WPlace(w, key, p) == [w EXCEPT !.blocks = place(@, key, p)]

\* a wall inside `key` at (0,0): what the script language calls SOLID
WSolid(w, key) ==
    LET w1 == WInsert(w, Wall)
    IN  WPlace(w1, w.next, Inside(key, <<0, 0>>))

\* the kinds of item put into a cell of a generated world
Items == {"Empty", "Wall", "Solid", "Hollow", "Box2", "Void", "Alias", "Zero", "Stray"}

\* insert the blocks of an item and place it at (c, cell); the item's own
\* block gets the key w.next
AddItem(w, kind, c, cell) ==
    CASE kind = "Empty" -> w
      [] kind = "Wall" -> WPlace(WInsert(w, Wall), w.next, Inside(c, cell))
      [] kind = "Solid" ->
           WPlace(WSolid(WInsert(w, Box(<<1, 1>>)), w.next), w.next, Inside(c, cell))
      [] kind = "Hollow" ->
           WPlace(WInsert(w, Box(<<1, 1>>)), w.next, Inside(c, cell))
      [] kind = "Box2" ->
           WPlace(WInsert(w, Box(<<2, 2>>)), w.next, Inside(c, cell))
      [] kind = "Void" ->
           WPlace(WInsert(w, Void(<<1, 1>>)), w.next, Inside(c, cell))
      [] kind = "Zero" ->
           WPlace(WInsert(w, Box(<<0, 0>>)), w.next, Inside(c, cell))
      [] kind = "Stray" ->
           \* a wall and a void that are inserted and never placed
           WInsert(WInsert(w, Wall), Void(<<1, 1>>))
      [] kind = "Alias" ->
           \* an alias of a solid box that is itself orphan
           LET w1 == WSolid(WInsert(w, Box(<<1, 1>>)), w.next)
               w2 == WInsert(w1, Alias(w.next))
           IN  WPlace(w2, w1.next, Inside(c, cell))

\* the cells of a grid of this size, column by column
CellSeq(sz) == [i \in 1 .. sz[1] * sz[2] |-> <<(i - 1) \div sz[2], (i - 1) % sz[2]>>]

RECURSIVE Fill(_, _, _, _)
Fill(w, c, cells, kindOf) ==
    IF cells = << >> THEN w
    ELSE Fill(AddItem(w, kindOf[Head(cells)], c, Head(cells)), c, Tail(cells), kindOf)

\* A scene: the orphan root box #1 of size (3,3), the box #2 of size sz at
\* its centre, the item kindOf[c] in every cell c of #2, and the item
\* ring[c] in each of the four cells of the root next to #2.
RingCells == <<<<2, 1>>, <<0, 1>>, <<1, 2>>, <<1, 0>>>>

Scene(sz, kindOf, ring) ==
    LET w1 == WInsert(WorldNew, Box(<<3, 3>>))
        w2 == WPlace(WInsert(w1, Box(sz)), 2, Inside(1, <<1, 1>>))
        w3 == Fill(w2, 2, CellSeq(sz), kindOf)
    IN  Fill(w3, 1, RingCells, ring)

\* the two arrangements of the ring: east, west, north, south of box #2
Rings ==
    { (<<2, 1>> :> "Box2" @@ <<0, 1>> :> "Wall" @@ <<1, 2>> :> "Box2" @@ <<1, 0>> :> "Empty"),
      (<<2, 1>> :> "Empty" @@ <<0, 1>> :> "Box2" @@ <<1, 2>> :> "Wall" @@ <<1, 0>> :> "Box2") }

\* the items of the rows, and the items that appear once next to a pusher
BasicItems == {"Empty", "Wall", "Solid", "Hollow"}
Pushers == {"Solid", "Hollow"}
SpecialItems == Items \ BasicItems

\* rows of up to three cells and the column of two, the row and the column
\* of two cells, the row of four cells
RowSizes == {<<1, 1>>, <<2, 1>>, <<1, 2>>, <<3, 1>>}
PairSizes == {<<2, 1>>, <<1, 2>>}
ChainSizes == {<<4, 1>>}

\* every row of basic items
BasicScenes ==
    UNION { { Scene(sz, kindOf, ring) :
                kindOf \in [Cells(sz) -> BasicItems], ring \in Rings } :
            sz \in RowSizes }

\* a pusher next to one special item, in both orders
PairScenes ==
    UNION { { Scene(sz, kindOf, ring) :
                kindOf \in { f \in [Cells(sz) -> Pushers \cup SpecialItems] :
                               \E c1, c2 \in Cells(sz) :
                                   f[c1] \in Pushers /\ f[c2] \in SpecialItems },
                ring \in Rings } :
            sz \in PairSizes }

\* three pushers of one kind in a row of four, the cell at one end empty
\* or a wall
ChainScenes ==
    UNION { { Scene(sz, kindOf, ring) :
                kindOf \in { f \in [Cells(sz) -> Pushers \cup {"Empty", "Wall"}] :
                               /\ \/ \A c \in Cells(sz) :
                                        f[c] \in Pushers <=> c[1] + c[2] < 3
                                  \/ \A c \in Cells(sz) :
                                        f[c] \in Pushers <=> c[1] + c[2] > 0
                               /\ \A c1, c2 \in Cells(sz) :
                                     f[c1] \in Pushers /\ f[c2] \in Pushers
                                        => f[c1] = f[c2] },
                ring \in Rings } :
            sz \in ChainSizes }

\* the world of the crate's example: a (5,5) box with the solid boxes
\* `player` at (0,2) and `block` at (1,2)
DocExample ==
    LET w1 == WInsert(WorldNew, Box(<<5, 5>>))
        w2 == WSolid(WInsert(w1, Box(<<1, 1>>)), 2)
        w3 == WSolid(WInsert(w2, Box(<<1, 1>>)), 4)
    IN  WPlace(WPlace(w3, 2, Inside(1, <<0, 2>>)), 4, Inside(1, <<1, 2>>))

\* the world of the script language's example: a (3,3) box with the solid
\* `box1` at (0,1), the (3,3) `box2` at (1,1) and a wall at (2,1)
ScriptExample ==
    LET w1 == WInsert(WorldNew, Box(<<3, 3>>))
        w2 == WSolid(WInsert(w1, Box(<<1, 1>>)), 2)
        w3 == WInsert(WInsert(w2, Box(<<3, 3>>)), Wall)
    IN  WPlace(WPlace(WPlace(w3, 2, Inside(1, <<0, 1>>)), 4, Inside(1, <<1, 1>>)),
               5, Inside(1, <<2, 1>>))

\* the same with a solid box in the place of `box2`
WallExample ==
    LET w1 == WInsert(WorldNew, Box(<<3, 3>>))
        w2 == WSolid(WInsert(w1, Box(<<1, 1>>)), 2)
        w3 == WSolid(WInsert(w2, Box(<<1, 1>>)), 4)
        w4 == WInsert(w3, Wall)
    IN  WPlace(WPlace(WPlace(w4, 2, Inside(1, <<0, 1>>)), 4, Inside(1, <<1, 1>>)),
               6, Inside(1, <<2, 1>>))

\* the world of the enter scenario: a (3,3) box with the solid `p` at (0,1)
\* and the (2,2) `target` at (1,1)
EnterExample ==
    LET w1 == WInsert(WorldNew, Box(<<3, 3>>))
        w2 == WSolid(WInsert(w1, Box(<<1, 1>>)), 2)
        w3 == WInsert(w2, Box(<<2, 2>>))
    IN  WPlace(WPlace(w3, 4, Inside(1, <<1, 1>>)), 2, Inside(1, <<0, 1>>))

ExampleScenes == {DocExample, ScriptExample, WallExample, EnterExample}

\* a (1,1) box placed in its own cell
SelfBox ==
    WPlace(WInsert(WorldNew, Box(<<1, 1>>)), 1, Inside(1, <<0, 0>>))

\* a (3,1) box placed in its own cell (0,0), with two solid boxes in the
\* cells (1,0) and (2,0)
Rotation ==
    LET w1 == WInsert(WorldNew, Box(<<3, 1>>))
        w2 == WSolid(WInsert(w1, Box(<<1, 1>>)), 2)
        w3 == WSolid(WInsert(w2, Box(<<1, 1>>)), 4)
    IN  WPlace(WPlace(WPlace(w3, 1, Inside(1, <<0, 0>>)), 2, Inside(1, <<1, 0>>)),
               4, Inside(1, <<2, 0>>))

\* a (3,3) box with the (2,1) void #2 at (0,0), the solid box #3 in the
\* void's cell (0,0), and in the row above the hollow box #7 at (0,1), the
\* alias #5 of #3 at (1,1) and the wall #6 at (2,1)
VoidExample ==
    LET w1 == WInsert(WInsert(WorldNew, Box(<<3, 3>>)), Void(<<2, 1>>))
        w2 == WSolid(WInsert(w1, Box(<<1, 1>>)), 3)
        w3 == WInsert(WInsert(WInsert(w2, Alias(3)), Wall), Box(<<1, 1>>))
        w4 == WPlace(WPlace(w3, 2, Inside(1, <<0, 0>>)), 3, Inside(2, <<0, 0>>))
    IN  WPlace(WPlace(WPlace(w4, 5, Inside(1, <<1, 1>>)), 6, Inside(1, <<2, 1>>)),
               7, Inside(1, <<0, 1>>))

\* a (3,3) box with the infinity #3 of the box #2 at (1,1); #2 is a (1,1)
\* box placed in its own cell
InfinityExample ==
    LET w1 == WInsert(WInsert(WorldNew, Box(<<3, 3>>)), Box(<<1, 1>>))
        w2 == WInsert(w1, Infinity(2))
    IN  WPlace(WPlace(w2, 2, Inside(2, <<0, 0>>)), 3, Inside(1, <<1, 1>>))

\* a (3,3) box with the solid box #2 at (0,1), the (1,1) box #4 at (1,1)
\* and the wall #6 at (2,1); #4 holds the alias #5 of itself; with
\* `epsilon`, the (1,1) epsilon #7 of #4 at (1,2)
EpsilonWorld(epsilon) ==
    LET w1 == WInsert(WorldNew, Box(<<3, 3>>))
        w2 == WSolid(WInsert(w1, Box(<<1, 1>>)), 2)
        w3 == WInsert(WInsert(WInsert(w2, Box(<<1, 1>>)), Alias(4)), Wall)
        w4 == WPlace(WPlace(w3, 2, Inside(1, <<0, 1>>)), 4, Inside(1, <<1, 1>>))
        w5 == WPlace(WPlace(w4, 5, Inside(4, <<0, 0>>)), 6, Inside(1, <<2, 1>>))
    IN  IF epsilon
        THEN WPlace(WInsert(w5, Epsilon(<<1, 1>>, 4)), 7, Inside(1, <<1, 2>>))
        ELSE w5

NoEpsilonExample == EpsilonWorld(FALSE)
EpsilonExample == EpsilonWorld(TRUE)

\* a (2,1) box placed in its own cell (0,0), with a solid box in the cell
\* (1,0)
Turnstile ==
    LET w1 == WInsert(WorldNew, Box(<<2, 1>>))
        w2 == WSolid(WInsert(w1, Box(<<1, 1>>)), 2)
    IN  WPlace(WPlace(w2, 1, Inside(1, <<0, 0>>)), 2, Inside(1, <<1, 0>>))

\* a (1,2) box #2 placed in its own cell (0,1), with the (1,1) box #3 in its
\* cell (0,0); in the (3,3) box #1 the infinity #4 of #2 at (0,1), the (1,2)
\* box #5 at (1,1) and the wall #6 at (2,1)
ScaleExample ==
    LET w1 == WInsert(WInsert(WInsert(WorldNew, Box(<<3, 3>>)), Box(<<1, 2>>)),
                      Box(<<1, 1>>))
        w2 == WInsert(WInsert(WInsert(w1, Infinity(2)), Box(<<1, 2>>)), Wall)
        w3 == WPlace(WPlace(w2, 2, Inside(2, <<0, 1>>)), 3, Inside(2, <<0, 0>>))
        w4 == WPlace(WPlace(w3, 4, Inside(1, <<0, 1>>)), 5, Inside(1, <<1, 1>>))
    IN  WPlace(w4, 6, Inside(1, <<2, 1>>))

\* a (1,3) box #2 placed in its own cell (0,2), with the (1,1) box #3 in its
\* cell (0,0) and its infinity #4 in its cell (0,1); in the (3,3) box #1 the
\* infinity #5 of #4 at (0,1), the (1,2) box #6 at (1,1), the wall #7 at (2,1)
TowerExample ==
    LET w1 == WInsert(WInsert(WInsert(WorldNew, Box(<<3, 3>>)), Box(<<1, 3>>)),
                      Box(<<1, 1>>))
        w2 == WInsert(WInsert(w1, Infinity(2)), Infinity(4))
        w3 == WInsert(WInsert(w2, Box(<<1, 2>>)), Wall)
        w4 == WPlace(WPlace(w3, 2, Inside(2, <<0, 2>>)), 3, Inside(2, <<0, 0>>))
        w5 == WPlace(WPlace(w4, 4, Inside(2, <<0, 1>>)), 5, Inside(1, <<0, 1>>))
    IN  WPlace(WPlace(w5, 6, Inside(1, <<1, 1>>)), 7, Inside(1, <<2, 1>>))

\* a (3,3) box with the solid box #2 at (0,1), the empty (1,2) box #4 at
\* (0,0), its alias #5 (orphan), the alias #6 of #5 at (1,1) and the wall #7
\* at (2,1)
AliasExample ==
    LET w1 == WInsert(WorldNew, Box(<<3, 3>>))
        w2 == WSolid(WInsert(w1, Box(<<1, 1>>)), 2)
        w3 == WInsert(WInsert(WInsert(w2, Box(<<1, 2>>)), Alias(4)), Alias(5))
        w4 == WPlace(WPlace(WInsert(w3, Wall), 2, Inside(1, <<0, 1>>)),
                     4, Inside(1, <<0, 0>>))
    IN  WPlace(WPlace(w4, 6, Inside(1, <<1, 1>>)), 7, Inside(1, <<2, 1>>))

\* a (4,1) box with the wall #2 at (0,0), the (1,2) box #3 at (1,0), the
\* solid box #6 at (2,0) and the wall #8 at (3,0); #3 holds the wall #5 in
\* its cell (0,0) and the alias #4 of itself in its cell (0,1)
EaterExample ==
    LET w1 == WInsert(WInsert(WInsert(WorldNew, Box(<<4, 1>>)), Wall), Box(<<1, 2>>))
        w2 == WInsert(WInsert(w1, Alias(3)), Wall)
        w3 == WInsert(WSolid(WInsert(w2, Box(<<1, 1>>)), 6), Wall)
        w4 == WPlace(WPlace(w3, 2, Inside(1, <<0, 0>>)), 3, Inside(1, <<1, 0>>))
        w5 == WPlace(WPlace(w4, 4, Inside(3, <<0, 1>>)), 5, Inside(3, <<0, 0>>))
    IN  WPlace(WPlace(w5, 6, Inside(1, <<2, 0>>)), 8, Inside(1, <<3, 0>>))

\* worlds in which a block contains itself, or refers to another
LoopScenes ==
    {SelfBox, Rotation, Turnstile, VoidExample, InfinityExample, ScaleExample,
     TowerExample, NoEpsilonExample, EpsilonExample, AliasExample, EaterExample}

Scenes ==
    BasicScenes \cup PairScenes \cup ChainScenes \cup ExampleScenes \cup LoopScenes

-----------------------------------------------------------------------------
(* The specification: a generated world, then push calls.                  *)

NoResult == [r |-> "none", err |-> NoError]

Init ==
    \E w \in Scenes :
        /\ blocks = w.blocks
        /\ nextKey = w.next
        /\ prev = w.blocks
        /\ last = [op |-> "new", key |-> None, direction |-> "North",
                   result |-> NoResult, entered |-> << >>,
                   cycled |-> << >>, resolved |-> << >>, exits |-> << >>,
                   eats |-> << >>, pushes |-> << >>, raised |-> << >>,
                   movements |-> << >>, positioned |-> {}, trace |-> CycleNew,
                   arrows |-> << >>, intos |-> << >>, confirmed |-> << >>]
        /\ steps = 0

\* World::push(key, direction)
\* (a failed call leaves the world as it was: the calls explored next are
\* those that follow a successful one)
Push(key, direction) ==
    /\ steps < MaxPushes
    /\ last.result.r \in {"none", "true"}
    /\ \E out \in {WorldPush(blocks, key, direction)} :
           /\ blocks' = out.blocks
           /\ last' = [op |-> "push", key |-> key, direction |-> direction,
                       result |-> out.result, entered |-> out.entered,
                       cycled |-> out.cycled, resolved |-> out.resolved,
                       exits |-> out.exits, eats |-> out.eats,
                       pushes |-> out.pushes, raised |-> out.raised,
                       movements |-> out.movements,
                       positioned |-> out.positioned, trace |-> out.trace,
                       arrows |-> out.arrows, intos |-> out.intos,
                       confirmed |-> out.confirmed]
    /\ prev' = blocks
    /\ steps' = steps + 1
    /\ UNCHANGED nextKey

Next == \E key \in DOMAIN blocks, direction \in Direction : Push(key, direction)

Spec == Init /\ [][Next]_vars

-----------------------------------------------------------------------------
(* The invariants of the data model, as predicates of a blocks map.        *)

\* I1: positions and interior cells agree, in both directions
I1(b) ==
    /\ \A k \in DOMAIN b :
          LET p == b[k].state.position
          IN  p.container # None =>
                /\ p.container \in DOMAIN b
                /\ p.pos \in DOMAIN b[p.container].state.interior
                /\ b[p.container].state.interior[p.pos] = k
    /\ \A c \in DOMAIN b :
          \A cell \in DOMAIN b[c].state.interior :
             b[c].state.interior[cell] # None =>
                /\ b[c].state.interior[cell] \in DOMAIN b
                /\ b[b[c].state.interior[cell]].state.position = Inside(c, cell)

\* I2: every non-orphan position lies within the size of its container
I2(b) ==
    \A k \in DOMAIN b :
       LET p == b[k].state.position
       IN  p.container # None =>
             /\ p.container \in DOMAIN b
             /\ contains(b[p.container].proto, p.pos)

\* I3: an orphan block appears in no interior
I3(b) ==
    \A k \in DOMAIN b :
       b[k].state.position.container = None =>
          \A c \in DOMAIN b : \A cell \in DOMAIN b[c].state.interior :
             b[c].state.interior[cell] # k

\* I4 (and P4): the back-references are those of the referring blocks
I4(b) ==
    \A k \in DOMAIN b :
       /\ b[k].info.references =
             {a \in DOMAIN b : b[a].proto.type = "Alias" /\ b[a].proto.reference = k}
       /\ \A i \in DOMAIN b :
             b[i].proto.type = "Infinity" /\ b[i].proto.reference = k
                => b[k].info.infinity = i
       /\ \A e \in DOMAIN b :
             b[e].proto.type = "Epsilon" /\ b[e].proto.reference = k
                => b[k].info.epsilon = e
       /\ b[k].info.infinity # None =>
             /\ b[k].info.infinity \in DOMAIN b
             /\ b[b[k].info.infinity].proto = Infinity(k)
       /\ b[k].info.epsilon # None =>
             /\ b[k].info.epsilon \in DOMAIN b
             /\ b[b[k].info.epsilon].proto.type = "Epsilon"
             /\ b[b[k].info.epsilon].proto.reference = k

WellFormed(b) == I1(b) /\ I2(b) /\ I3(b) /\ I4(b)

\* the positions of a blocks map
Positions(b) == [k \in DOMAIN b |-> b[k].state.position]

\* the last operation was a push with this result ("true", "false", "err")
Pushed(r) == last.op = "push" /\ last.result.r = r

\* the blocks whose position the last operation changed
Moved == {k \in DOMAIN blocks : blocks[k].state.position # prev[k].state.position}

-----------------------------------------------------------------------------
(* C1: a push that returns Ok(false) or an error leaves every block's       *)
(* position, interior, prototype and info as they were before the call.    *)
C1_PushAtomic ==
    (Pushed("false") \/ Pushed("err")) => blocks = prev

\* a push of a movable, placed block that was stopped after it had pushed
\* into an occupied cell, and a push that ended in an error half-way
C1_Witness ==
    /\ Pushed("false")
    /\ ~is_static(prev[last.key].proto)
    /\ prev[last.key].state.position.container # None
    /\ WellFormed(prev)

-----------------------------------------------------------------------------
(* C2: position/interior agreement (I1) holds after every operation, a     *)
(* successful push included.                                               *)
C2_I1AfterPush == I1(blocks)

(* C3: after any sequence of pushes no two distinct blocks have the same   *)
(* non-orphan position.                                                    *)
C3_UniqueOccupants ==
    \A k1, k2 \in DOMAIN blocks :
       (/\ k1 # k2
        /\ blocks[k1].state.position.container # None
        /\ blocks[k2].state.position.container # None)
          => blocks[k1].state.position # blocks[k2].state.position

(* C4: after any sequence of pushes every non-orphan position lies within  *)
(* the size of its container, and a push makes no placed block orphan.     *)
C4_InBounds == I2(blocks)

C4_NeverOrphaned ==
    \A k \in DOMAIN blocks :
       prev[k].state.position.container # None
          => blocks[k].state.position.container # None

C4_InBoundsNeverOrphaned == C4_InBounds /\ C4_NeverOrphaned

-----------------------------------------------------------------------------
(* Cells as the calls see them: a cell of a container holds what           *)
(* World::position_state reports for it, a block is where World::position  *)
(* reports it.                                                             *)

\* the cell n steps from cell p in direction d
Ahead(p, d, n) == <<p[1] + n * delta(d)[1], p[2] + n * delta(d)[2]>>

InBounds(b, c, cell) == cell[1] >= 0 /\ cell[2] >= 0 /\ contains(b[c].proto, cell)

\* World::position_state of a cell of c that is in bounds
CellState(b, c, cell) == position_state(b, Inside(c, cell))

\* the number of cells of the longer side of c
Extent(b, c) == IF width(b[c].proto) > height(b[c].proto)
                THEN width(b[c].proto) ELSE height(b[c].proto)

\* the block pushed by the last call, its position before the call
PushedKey == last.key
PushedFrom == prev[last.key].state.position

\* the last call pushed a movable block that was placed in a container
PushOfPlaced ==
    /\ last.op = "push"
    /\ ~is_static(prev[PushedKey].proto)
    /\ PushedFrom.container # None

-----------------------------------------------------------------------------
(* C5: chain push: when the n cells ahead of the pushed block hold movable *)
(* blocks and the cell after them is in bounds and empty, the push returns *)
(* Ok(true), the pushed block and the n blocks move one cell ahead, and no *)
(* other block's position changes.                                         *)

\* the block in the i-th cell ahead of the pushed block, before the call
RunKey(i) == CellState(prev, PushedFrom.container, Ahead(PushedFrom.pos, last.direction, i)).key

\* the n cells ahead hold movable blocks, and the next one is empty
Chain(n) ==
    /\ PushOfPlaced
    /\ InBounds(prev, PushedFrom.container, Ahead(PushedFrom.pos, last.direction, n + 1))
    /\ \A i \in 1 .. n :
          /\ RunKey(i) # None
          /\ ~is_static(prev[RunKey(i)].proto)
    /\ RunKey(n + 1) = None

ChainMoved(n) ==
    LET c == PushedFrom.container
        d == last.direction
    IN  /\ Pushed("true")
        /\ blocks[PushedKey].state.position = Inside(c, Ahead(PushedFrom.pos, d, 1))
        /\ \A i \in 1 .. n :
              blocks[RunKey(i)].state.position = Inside(c, Ahead(PushedFrom.pos, d, i + 1))
        /\ \A k \in DOMAIN blocks :
              k \notin {PushedKey} \cup {RunKey(i) : i \in 1 .. n}
                 => blocks[k].state.position = prev[k].state.position

C5_ChainPush ==
    PushOfPlaced =>
       \A n \in 0 .. Extent(prev, PushedFrom.container) : Chain(n) => ChainMoved(n)

-----------------------------------------------------------------------------
(* C6: a push of a Wall or of a Void, orphan or not, returns Ok(false) and *)
(* changes nothing, and no push changes the position of a Wall or a Void.  *)
C6_StaticNeverMoves ==
    /\ (last.op = "push" /\ prev[PushedKey].proto.type \in {"Wall", "Void"})
          => /\ last.result = [r |-> "false", err |-> NoError]
             /\ blocks = prev
    /\ \A k \in DOMAIN blocks :
          prev[k].proto.type \in {"Wall", "Void"}
             => blocks[k].state.position = prev[k].state.position

\* a push of an orphan Void, made after a push that has moved blocks
C6_Witness ==
    /\ Pushed("false")
    /\ prev[PushedKey].proto.type = "Void"
    /\ PushedFrom.container = None
    /\ steps = 2

-----------------------------------------------------------------------------
(* C7: a push of a movable block whose position is orphan returns          *)
(* Err(Orphan(key)) with the key of that block, in every direction, and    *)
(* leaves the world as it was.                                             *)
C7_OrphanPushIsError ==
    (/\ last.op = "push"
     /\ ~is_static(prev[PushedKey].proto)
     /\ PushedFrom.container = None)
       => /\ last.result = [r |-> "err", err |-> MoveError("Orphan", PushedKey)]
          /\ blocks = prev

\* a push of an orphan box that is not the root and holds a block
C7_Witness ==
    /\ Pushed("err")
    /\ ~is_static(prev[PushedKey].proto)
    /\ PushedFrom.container = None
    /\ PushedKey # 1
    /\ \E k \in DOMAIN prev : prev[k].state.position = Inside(PushedKey, <<0, 0>>)

-----------------------------------------------------------------------------
(* C8: a push whose chain ends at a wall, with no block able to enter or   *)
(* eat another, returns Ok(false) and changes nothing: the pushed block    *)
(* and the blocks in the n cells ahead of it are (1,1) boxes that hold a   *)
(* wall, and the next cell holds a wall.                                   *)

\* a (1,1) box whose cell holds a wall
Solid(b, k) ==
    /\ b[k].proto = Box(<<1, 1>>)
    /\ b[k].state.interior[<<0, 0>>] # None
    /\ b[b[k].state.interior[<<0, 0>>]].proto = Wall

WallAfter(n) ==
    /\ PushOfPlaced
    /\ Solid(prev, PushedKey)
    /\ InBounds(prev, PushedFrom.container, Ahead(PushedFrom.pos, last.direction, n + 1))
    /\ \A i \in 1 .. n : RunKey(i) # None /\ Solid(prev, RunKey(i))
    /\ RunKey(n + 1) # None
    /\ prev[RunKey(n + 1)].proto = Wall

C8_WallBlocks ==
    PushOfPlaced =>
       \A n \in 0 .. Extent(prev, PushedFrom.container) :
          WallAfter(n) => (Pushed("false") /\ blocks = prev)

-----------------------------------------------------------------------------
(* C9: exit: when the cell ahead of the pushed block is outside its        *)
(* container c, c is not a Void, c is at cell q of g, and the cell of g    *)
(* ahead of q is in bounds and empty, the push returns Ok(true), the block *)
(* is then at that cell of g, and c has not moved.                         *)
\* the container the pushed block was in, the container of that container,
\* and the cell of it ahead of the first
ExitFrom == PushedFrom.container
ExitInto == prev[ExitFrom].state.position.container
ExitCell == Ahead(prev[ExitFrom].state.position.pos, last.direction, 1)

Exits ==
    /\ PushOfPlaced
    /\ ~InBounds(prev, ExitFrom, Ahead(PushedFrom.pos, last.direction, 1))
    /\ ~is_void(prev[ExitFrom].proto)
    /\ ExitInto # None
    /\ InBounds(prev, ExitInto, ExitCell)
    /\ CellState(prev, ExitInto, ExitCell).state = "Empty"

C9_Exit ==
    Exits => /\ Pushed("true")
             /\ blocks[PushedKey].state.position = Inside(ExitInto, ExitCell)
             /\ blocks[ExitFrom].state.position = prev[ExitFrom].state.position

\* an exit in a world that no push has changed yet
C9_Witness ==
    /\ WellFormed(prev)
    /\ Exits
    /\ blocks[PushedKey].state.position = Inside(ExitInto, ExitCell)

-----------------------------------------------------------------------------
(* C10: enter geometry: a block that moves in direction d with carried     *)
(* fraction precise and enters a hollow block of size (W,H) lands on the   *)
(* tangent coordinate 0 for North (y) and East (x), H-1 for South (y) and  *)
(* W-1 for West (x), on the normal coordinate floor(precise * N), N = W    *)
(* for North and South and N = H for East and West, and carries            *)
(* frac(precise * N); the landing cell is always inside the entered block. *)
Landing(W, H, d, precise) ==
    LET N == IF d \in {"North", "South"} THEN W ELSE H
        normal == (precise.numerator * N) \div precise.denominator
    IN  CASE d = "North" -> <<normal, 0>>
          [] d = "South" -> <<normal, H - 1>>
          [] d = "East"  -> <<0, normal>>
          [] d = "West"  -> <<W - 1, normal>>

\* frac(precise * N) = q, as an equation of cross products
CarriesFrac(precise, N, q) ==
    ((precise.numerator * N) % precise.denominator) * q.denominator
       = q.numerator * precise.denominator

EnterAsStated(e) ==
    LET proto == prev[e.info.into].proto
        d == e.info.direction
        N == IF d \in {"North", "South"} THEN width(proto) ELSE height(proto)
    IN  /\ ~e.result.panic
        /\ e.result.some
        /\ e.result.next.position =
              Inside(e.info.into, Landing(width(proto), height(proto), d, e.info.precise))
        /\ CarriesFrac(e.info.precise, N, e.result.next.precise)
        /\ InBounds(prev, e.info.into, e.result.next.position.pos)

C10_EnterGeometry ==
    \A i \in DOMAIN last.entered :
       is_hollow(prev[last.entered[i].info.into].proto)
          => EnterAsStated(last.entered[i])

-----------------------------------------------------------------------------
(* C11: the enter scenario: with the solid p at (0,1) and the (2,2) box    *)
(* target at (1,1) of the (3,3) box big, push(p, East) returns Ok(true)    *)
(* and p is then at cell (0,1) of target.                                  *)

\* the last call was push(p, East) on the world of the scenario
EnterScenarioPushed ==
    /\ last.op = "push"
    /\ prev = EnterExample.blocks
    /\ PushedKey = 2
    /\ last.direction = "East"

C11_EntersTarget ==
    EnterScenarioPushed
       => /\ Pushed("true")
          /\ blocks[2].state.position = Inside(4, <<0, 1>>)

\* C11 as amended: the cell east of target is empty, so target is pushed:
\* push(p, East) returns Ok(true), p is then at (1,1) of big and target at
\* (2,1) of big, and no other block has moved.
C11_PushesTarget ==
    EnterScenarioPushed
       => /\ Pushed("true")
          /\ blocks[2].state.position = Inside(1, <<1, 1>>)
          /\ blocks[4].state.position = Inside(1, <<2, 1>>)
          /\ Moved = {2, 4}

C11_Witness == EnterScenarioPushed /\ Pushed("true")

-----------------------------------------------------------------------------
(* C12: eat: when the pushed block A can neither push nor enter the        *)
(* movable block B in the cell ahead of it, and B can enter A from the     *)
(* opposite direction with precise 1/2, the push returns Ok(true), A is    *)
(* then at the former position of B, and B in the cell of A that the enter *)
(* geometry gives for the opposite direction and 1/2.                      *)

\* the cell of a block of this prototype where a block lands that enters it
\* in direction d with precise 1/2
EatLanding(proto, d) == Landing(width(proto), height(proto), d, HALF)

\* Algorithm::push of the resident B, as push_into calls it with A on the
\* trace, returns Ok(false)
CannotPush(A, B, d) ==
    AlgorithmPush(prev, [AlgorithmNew EXCEPT !.trace = CyclePush(CycleNew, A, Unit).trace],
                  B, d).r = "false"

\* A is hollow, the cell ahead holds the solid box B that cannot be pushed,
\* and the cell of A where B would land is empty
EatCase ==
    /\ PushOfPlaced
    /\ is_hollow(prev[PushedKey].proto)
    /\ width(prev[PushedKey].proto) > 0
    /\ height(prev[PushedKey].proto) > 0
    /\ InBounds(prev, PushedFrom.container, Ahead(PushedFrom.pos, last.direction, 1))
    /\ RunKey(1) # None
    /\ RunKey(1) # PushedKey
    /\ Solid(prev, RunKey(1))
    /\ CannotPush(PushedKey, RunKey(1), last.direction)
    /\ prev[PushedKey].state.interior[
          EatLanding(prev[PushedKey].proto, opposite(last.direction))] = None

C12_Eat ==
    EatCase
       => /\ Pushed("true")
          /\ blocks[PushedKey].state.position = prev[RunKey(1)].state.position
          /\ blocks[RunKey(1)].state.position =
                Inside(PushedKey,
                       EatLanding(prev[PushedKey].proto, opposite(last.direction)))

-----------------------------------------------------------------------------
(* C13: when the recursion of a push comes back to a block that is on the  *)
(* trace, the push returns Ok(true) and the movements written are the      *)
(* closed loop of the rotation: every block of the loop is then in a cell  *)
(* that a block of the loop has left, and no block outside the loop moves. *)

\* the keys of a trace from the first entry of `key` on
LoopOf(c) ==
    {c.trace[i][1] : i \in CycleIndex(c.trace, c.key) .. Len(c.trace)}

\* the blocks on the loops the last call has found
OnLoop == UNION {LoopOf(last.cycled[i]) : i \in DOMAIN last.cycled}

C13_Rotation ==
    (last.op = "push" /\ last.cycled # << >>)
       => /\ Pushed("true")
          /\ Moved \subseteq OnLoop
          /\ \A k \in OnLoop :
                \E j \in OnLoop : blocks[k].state.position = prev[j].state.position

-----------------------------------------------------------------------------
(* C14: nothing exits a Void.  A push of a block that lies in a Void and   *)
(* has the Void's edge ahead returns Ok(false); and after every push, each *)
(* block whose container was a Void before the call has the same container *)
(* after it.                                                               *)

\* the blocks that lie directly inside a Void
InVoid(b) == {k \in DOMAIN b : is_in_void(b, b[k].state.position)}

\* the pushed block lies in a Void and the cell ahead is past its edge
VoidEdgeAhead ==
    /\ PushOfPlaced
    /\ PushedKey \in InVoid(prev)
    /\ ~InBounds(prev, PushedFrom.container, Ahead(PushedFrom.pos, last.direction, 1))

C14_NothingExitsVoid ==
    last.op = "push" =>
        /\ VoidEdgeAhead => Pushed("false")
        /\ \A k \in InVoid(prev) :
               blocks[k].state.position.container = prev[k].state.position.container

-----------------------------------------------------------------------------
(* C15: nothing enters a Void from outside.  After every push, each block  *)
(* that lies directly inside a Void had that Void as its container before  *)
(* the call.                                                               *)

C15_NothingEntersVoid ==
    last.op = "push" =>
        \A k \in InVoid(blocks) :
            prev[k].state.position.container = blocks[k].state.position.container

-----------------------------------------------------------------------------
(* C16: when the exit traversal of the pushed block comes back to a        *)
(* container k it has already exited, and k has no Infinity                *)
(* back-reference, the push returns Err(NoInfinity(k)) and the world is    *)
(* unchanged.                                                              *)

\* the walk of exits that starts at `source`: the first container that is
\* exited a second time, None when the walk ends before that
RECURSIVE ExitRevisit(_, _, _)
ExitRevisit(b, exited, source) ==
    LET st == source_to_target(b, source)
        k  == st.info.from
    IN  IF st.ok THEN None
        ELSE IF k \in exited THEN k
        ELSE IF is_void(b[k].proto) \/ b[k].state.position.container = None
        THEN None
        ELSE ExitRevisit(b, exited \cup {k},
                         SourceArrow(b[k].state.position, source.direction,
                                     st.info.precise))

\* the container the pushed block's exits come back to
Revisited ==
    IF PushOfPlaced
    THEN ExitRevisit(prev, {}, SourceArrow(PushedFrom, last.direction, HALF))
    ELSE None

C16_NoInfinity ==
    (Revisited # None /\ prev[Revisited].info.infinity = None) =>
        /\ last.result = [r |-> "err", err |-> MoveError("NoInfinity", Revisited)]
        /\ blocks = prev

C16_Witness ==
    /\ Revisited # None
    /\ prev[Revisited].info.infinity = None
    /\ last.result = [r |-> "err", err |-> MoveError("NoInfinity", Revisited)]
    /\ blocks = prev

-----------------------------------------------------------------------------
(* C17: epsilon resolution.  Every enter attempt that push_into finds      *)
(* among the attempts it has already made is replaced by the attempt with  *)
(* `into` set to the Epsilon back-reference of `into`, again while the     *)
(* replacement has been made too, and the block enters that block; when    *)
(* the block to replace has no Epsilon back-reference the push returns     *)
(* Err(NoEpsilon(into)) and the world is unchanged.                        *)

Attempts(cycle) == {cycle[i][1] : i \in DOMAIN cycle}

\* the first attempt along the Epsilon back-references of `info` that the
\* detector does not hold; `missing` when a back-reference is missing
RECURSIVE Replaced(_, _, _)
Replaced(b, cycle, info) ==
    IF info \notin Attempts(cycle) THEN [missing |-> FALSE, info |-> info]
    ELSE IF b[info.into].info.epsilon = None THEN [missing |-> TRUE, info |-> info]
    ELSE Replaced(b, cycle,
                  EnterInfo(b[info.into].info.epsilon, info.direction, info.precise))

ResolvedAsStated(e) ==
    LET to == Replaced(prev, e.cycle, e.info)
    IN  /\ e.info \in Attempts(e.cycle)
        /\ IF to.missing
           THEN /\ e.result = [r |-> "err", err |-> MoveError("NoEpsilon", to.info.into)]
                /\ last.result = e.result
                /\ blocks = prev
           ELSE /\ e.result = [r |-> "ok", info |-> to.info]
                /\ prev[to.info.into].proto.type = "Epsilon"
                /\ \E i \in DOMAIN last.entered : last.entered[i].info = to.info

C17_Epsilon ==
    \A i \in DOMAIN last.resolved : ResolvedAsStated(last.resolved[i])

\* a push in which an attempt was replaced and the pushed block has entered
\* the epsilon block
C17_Witness ==
    /\ last.resolved # << >>
    /\ ResolvedAsStated(last.resolved[1])
    /\ last.resolved[1].result.r = "ok"
    /\ Pushed("true")
    /\ blocks[PushedKey].state.position.container = last.resolved[1].result.info.into

-----------------------------------------------------------------------------
(* C18: when a push has to exit a container c that is orphan, for the      *)
(* pushed block or for a block pushed in its chain, it returns             *)
(* Err(Orphan(c)) and the world is unchanged.                              *)

\* the walk of exits that starts at `source`: the orphan container it
\* arrives at, None when the walk ends before that
RECURSIVE ExitOrphan(_, _, _)
ExitOrphan(b, exited, source) ==
    LET st == source_to_target(b, source)
        k  == st.info.from
    IN  IF st.ok THEN None
        ELSE IF k \in exited \/ is_void(b[k].proto) THEN None
        ELSE IF b[k].state.position.container = None THEN k
        ELSE ExitOrphan(b, exited \cup {k},
                        SourceArrow(b[k].state.position, source.direction,
                                    st.info.precise))

\* the orphan container the pushed block has to exit
OrphanAhead ==
    IF PushOfPlaced
    THEN ExitOrphan(prev, {}, SourceArrow(PushedFrom, last.direction, HALF))
    ELSE None

OrphanError(c) ==
    /\ last.result = [r |-> "err", err |-> MoveError("Orphan", c)]
    /\ blocks = prev

C18_OrphanContainer ==
    /\ OrphanAhead # None => OrphanError(OrphanAhead)
    /\ \A i \in DOMAIN last.exits :
          prev[last.exits[i].from].state.position.container = None
              => OrphanError(last.exits[i].from)

\* the error comes from a block pushed in the chain: the pushed block has
\* no orphan container to exit
C18_Witness ==
    /\ PushOfPlaced
    /\ OrphanAhead = None
    /\ \E i \in DOMAIN last.exits :
          /\ prev[last.exits[i].from].state.position.container = None
          /\ OrphanError(last.exits[i].from)

-----------------------------------------------------------------------------
(* C19: push terminates.  In a world that satisfies I1-I4, every call of   *)
(* push returns Ok(true), Ok(false) or an error: no call aborts, and no    *)
(* detector grows to the cap on its length.                                *)

C19_PushReturns ==
    (last.op = "push" /\ WellFormed(prev)) =>
        last.result.r \in {"true", "false", "err"}

-----------------------------------------------------------------------------
(* C20: the boolean result reports movement.  A push that returns Ok(true) *)
(* has changed the position of at least one block, and a push that returns *)
(* Ok(false) has changed none.                                             *)

C20_ResultReportsMovement ==
    last.op = "push" =>
        /\ Pushed("true") => Moved # {}
        /\ Pushed("false") => Moved = {}

-----------------------------------------------------------------------------
(* C21: round trip.  In a world without Infinity or Epsilon blocks,        *)
(* whenever push(k, d) returns Ok(true), the immediately following         *)
(* push(k, opposite(d)) returns Ok(true) and restores the position of      *)
(* every block to what it was before the first push.                       *)

\* the step that follows a successful push(k, d) by push(k, opposite(d));
\* prev is the world before the first of the two pushes
PushedBack ==
    /\ Pushed("true")
    /\ \A k \in DOMAIN prev : prev[k].proto.type \notin {"Infinity", "Epsilon"}
    /\ last'.op = "push"
    /\ last'.key = last.key
    /\ last'.direction = opposite(last.direction)

C21_RoundTrip ==
    [][PushedBack =>
          /\ last'.result.r = "true"
          /\ Positions(blocks') = Positions(prev)]_vars

-----------------------------------------------------------------------------
(* The block store as the caller uses it: World::insert, World::remove and *)
(* World::place called on a new world.  Indexing the SlotMap with the key  *)
(* of a removed block, or a Vec outside its length, aborts the call.       *)

Done(b) == [blocks |-> b, panic |-> FALSE]
Abort(b) == [blocks |-> b, panic |-> TRUE]

\* self.blocks[p.container].state.interior[x][y] can be indexed
Indexable(b, p) ==
    p.container # None =>
        /\ p.container \in DOMAIN b
        /\ p.pos \in DOMAIN b[p.container].state.interior

\* World::place with its index operations
try_place(b, key, p) ==
    IF key \notin DOMAIN b THEN Abort(b)
    ELSE IF ~Indexable(b, b[key].state.position) THEN Abort(b)
    ELSE IF ~Indexable(b, p) THEN Abort(b)
    ELSE Done(place(b, key, p))

\* World::remove, the loop over the interior of the removed block:
\* self.place(child, Position::default()) for every child, column by column
RECURSIVE orphan_children(_, _, _)
orphan_children(b, interior, cells) ==
    IF cells = << >> THEN Done(b)
    ELSE IF interior[Head(cells)] = None
         THEN orphan_children(b, interior, Tail(cells))
         ELSE LET o == try_place(b, interior[Head(cells)], Orphan)
              IN  IF o.panic THEN o
                  ELSE orphan_children(o.blocks, interior, Tail(cells))

\* World::remove : the set of its outcomes, one for each order in which
\* the HashSet info.references can be iterated
RECURSIVE remove(_, _), remove_owners(_, _, _)
remove(b, key) ==
    IF key \notin DOMAIN b THEN {Abort(b)}
    ELSE IF ~Indexable(b, b[key].state.position) THEN {Abort(b)}
    ELSE LET cur   == b[key].state.position
             b1    == IF cur.container # None
                      THEN [b EXCEPT ![cur.container].state.interior[cur.pos] = None]
                      ELSE b
             block == b1[key]
             b2    == [k \in DOMAIN b1 \ {key} |-> b1[k]]
         IN  UNION {IF o.panic THEN {o}
                    ELSE remove_owners(o.blocks, block.info.references,
                                       <<block.info.infinity, block.info.epsilon>>)
                    : o \in {orphan_children(b2, block.state.interior,
                                             CellSeq(size(block.proto)))}}

\* World::remove, the removal of the reference owners: the aliases in any
\* order, then the infinity, then the epsilon
remove_owners(b, aliases, rest) ==
    IF aliases # {}
    THEN UNION {UNION {IF o.panic THEN {o}
                       ELSE remove_owners(o.blocks, aliases \ {a}, rest)
                       : o \in remove(b, a)}
                : a \in aliases}
    ELSE IF rest = << >> THEN {Done(b)}
    ELSE IF Head(rest) = None THEN remove_owners(b, {}, Tail(rest))
    ELSE UNION {IF o.panic THEN {o}
                ELSE remove_owners(o.blocks, {}, Tail(rest))
                : o \in remove(b, Head(rest))}

\* the prototypes the caller inserts: a reference is the key of a live block
StoreProtos(b) ==
    {Wall, Box(<<1, 1>>), Box(<<2, 1>>)}
        \cup UNION {{Alias(r), Infinity(r), Epsilon(<<1, 1>>, r)} : r \in DOMAIN b}

\* the positions the caller places a block at: orphan, an empty cell within
\* the size of a live block, or the cell the block is in
StorePlaces(b, key) ==
    {Orphan} \cup
    {p \in UNION {{Inside(c, cell) : cell \in DOMAIN b[c].state.interior}
                  : c \in DOMAIN b} :
        \/ b[p.container].state.interior[p.pos] = None
        \/ p = b[key].state.position}

StoreInit ==
    /\ blocks = WorldNew.blocks
    /\ nextKey = WorldNew.next
    /\ prev = WorldNew.blocks
    /\ last = [op |-> "new", key |-> None, arg |-> None, panic |-> FALSE]
    /\ steps = 0

\* World::insert(proto)
Insert(proto) ==
    /\ steps < MaxCalls
    /\ nextKey <= MaxKeys
    /\ ~last.panic
    /\ blocks' = insert(blocks, nextKey, proto)
    /\ nextKey' = nextKey + 1
    /\ last' = [op |-> "insert", key |-> nextKey, arg |-> proto, panic |-> FALSE]
    /\ prev' = blocks
    /\ steps' = steps + 1

\* World::remove(key)
Remove(key) ==
    /\ steps < MaxCalls
    /\ ~last.panic
    /\ \E out \in remove(blocks, key) :
           /\ blocks' = out.blocks
           /\ last' = [op |-> "remove", key |-> key, arg |-> None,
                       panic |-> out.panic]
    /\ prev' = blocks
    /\ steps' = steps + 1
    /\ UNCHANGED nextKey

\* World::place(key, position)
Place(key, p) ==
    /\ steps < MaxCalls
    /\ ~last.panic
    /\ \E out \in {try_place(blocks, key, p)} :
           /\ blocks' = out.blocks
           /\ last' = [op |-> "place", key |-> key, arg |-> p,
                       panic |-> out.panic]
    /\ prev' = blocks
    /\ steps' = steps + 1
    /\ UNCHANGED nextKey

StoreNext ==
    \/ \E proto \in StoreProtos(blocks) : Insert(proto)
    \/ \E key \in DOMAIN blocks : Remove(key)
    \/ \E key \in DOMAIN blocks : \E p \in StorePlaces(blocks, key) :
          Place(key, p)

StoreSpec == StoreInit /\ [][StoreNext]_vars

-----------------------------------------------------------------------------
(* C22: the back-references are exact after every public operation.        *)
(* After any sequence of insert and remove calls, for every live block b,  *)
(* b.info.references is the set of live Alias blocks whose reference is b, *)
(* b.info.infinity is Some(i) exactly when i is the live Infinity block    *)
(* whose reference is b, likewise b.info.epsilon for Epsilon, and no info  *)
(* field holds the key of a removed block.                                 *)

\* the live blocks of this type whose reference is k
Referrers(b, type, k) ==
    {a \in DOMAIN b : b[a].proto.type = type /\ b[a].proto.reference = k}

\* the option holds the one referrer, or None when there is none
ExactOption(option, referrers) ==
    IF referrers = {} THEN option = None ELSE referrers = {option}

C22_BackReferences ==
    ~last.panic =>
        \A k \in DOMAIN blocks :
            /\ blocks[k].info.references = Referrers(blocks, "Alias", k)
            /\ ExactOption(blocks[k].info.infinity, Referrers(blocks, "Infinity", k))
            /\ ExactOption(blocks[k].info.epsilon, Referrers(blocks, "Epsilon", k))

-----------------------------------------------------------------------------
(* C23: after any sequence of insert calls, every block has at most one    *)
(* live Infinity block and at most one live Epsilon block whose reference  *)
(* is that block.                                                          *)

\* (no block has been removed when every key handed out is live)
C23_OneInfinityOneEpsilon ==
    Cardinality(DOMAIN blocks) = nextKey - 1 =>
        \A k \in DOMAIN blocks :
            /\ Cardinality(Referrers(blocks, "Infinity", k)) <= 1
            /\ Cardinality(Referrers(blocks, "Epsilon", k)) <= 1

-----------------------------------------------------------------------------
(* C24: remove(k) on a live block that has one or more blocks in its       *)
(* interior completes without aborting, and afterwards every block that    *)
(* was directly inside k is still alive and orphan; when k contained       *)
(* itself, k is gone.                                                      *)

\* the blocks in the interior of k
Children(b, k) ==
    {b[k].state.interior[cell] : cell \in DOMAIN b[k].state.interior} \ {None}

C24_RemoveOrphansChildren ==
    (last.op = "remove" /\ Children(prev, last.key) # {}) =>
        /\ ~last.panic
        /\ last.key \notin DOMAIN blocks
        /\ \A child \in Children(prev, last.key) \ {last.key} :
              /\ child \in DOMAIN blocks
              /\ blocks[child].state.position = Orphan

-----------------------------------------------------------------------------
(* C25: remove(k) removes exactly k and every block that refers to k,      *)
(* directly or transitively, through an Alias, Infinity or Epsilon         *)
(* reference; it clears the interior cell of each removed block's          *)
(* container and removes no other block, whatever was removed before.      *)

\* the blocks of S and the live blocks that refer to them, transitively
RECURSIVE Owners(_, _)
Owners(b, S) ==
    LET T == S \cup {a \in DOMAIN b : b[a].proto.reference \in S}
    IN  IF T = S THEN S ELSE Owners(b, T)

\* the cell of a removed block is empty in its container, if that is live
CellCleared(b, p) ==
    (p.container \in DOMAIN b /\ p.pos \in DOMAIN b[p.container].state.interior)
        => b[p.container].state.interior[p.pos] = None

C25_RemoveCascade ==
    last.op = "remove" =>
        /\ ~last.panic
        /\ DOMAIN blocks = DOMAIN prev \ Owners(prev, {last.key})
        /\ \A r \in Owners(prev, {last.key}) :
              CellCleared(blocks, prev[r].state.position)

-----------------------------------------------------------------------------
(* C26: place(k, p), with p orphan, an empty cell within the size of its   *)
(* container, or the cell k is in, clears the cell k was in, writes k in   *)
(* the cell p, and sets the position of k to p, also when the container    *)
(* is k itself; the position of every other block and every other cell     *)
(* are unchanged, so that I1-I3 are preserved.                             *)

\* the cell (c, cell) after place(k, p) on the blocks b
CellAfterPlace(b, k, p, c, cell) ==
    IF Inside(c, cell) = p THEN k
    ELSE IF Inside(c, cell) = b[k].state.position THEN None
    ELSE b[c].state.interior[cell]

PlacedAsStated(k, p) ==
    /\ ~last.panic
    /\ DOMAIN blocks = DOMAIN prev
    /\ \A j \in DOMAIN blocks :
          /\ blocks[j].proto = prev[j].proto
          /\ blocks[j].info = prev[j].info
          /\ blocks[j].state.position = IF j = k THEN p ELSE prev[j].state.position
          /\ DOMAIN blocks[j].state.interior = DOMAIN prev[j].state.interior
          /\ \A cell \in DOMAIN prev[j].state.interior :
                blocks[j].state.interior[cell] = CellAfterPlace(prev, k, p, j, cell)

C26_Place ==
    last.op = "place" =>
        /\ PlacedAsStated(last.key, last.arg)
        /\ (I1(prev) /\ I2(prev) /\ I3(prev))
              => (I1(blocks) /\ I2(blocks) /\ I3(blocks))

\* a block moved from a cell of another block into its own interior
C26_Witness ==
    /\ last.op = "place"
    /\ last.arg.container = last.key
    /\ prev[last.key].state.position.container \notin {None, last.key}
    /\ PlacedAsStated(last.key, last.arg)
    /\ I1(prev) /\ I2(prev) /\ I3(prev)
    /\ I1(blocks) /\ I2(blocks) /\ I3(blocks)

-----------------------------------------------------------------------------
(* C27: infinity resolution.  When the exits of a traversal come back to   *)
(* a container k already exited in it and k has an Infinity block i, the   *)
(* traversal goes on by exiting from the position of i in the same         *)
(* direction, with the precise recorded when k was first exited, not the   *)
(* one computed on the repeated visit; when i has been exited as well, the *)
(* same substitution is made for i.                                        *)

\* the exit to make for `info`, where `first` maps every container exited
\* so far to the precise of its first exit
RECURSIVE Substituted(_, _, _)
Substituted(b, first, info) ==
    IF info.from \notin DOMAIN first THEN [missing |-> FALSE, info |-> info]
    ELSE IF b[info.from].info.infinity = None THEN [missing |-> TRUE, info |-> info]
    ELSE Substituted(b, first,
                     ExitInfo(b[info.from].info.infinity, info.direction,
                              first[info.from]))

\* the exits of the traversal that starts at `source`, in order
RECURSIVE ExitWalk(_, _, _)
ExitWalk(b, first, source) ==
    LET st == source_to_target(b, source)
        to == Substituted(b, first, st.info)
        k  == to.info.from
    IN  IF st.ok THEN << >>
        ELSE IF to.missing \/ is_void(b[k].proto) THEN << >>
        ELSE IF b[k].state.position.container = None THEN <<to.info>>
        ELSE <<to.info>> \o
             ExitWalk(b, (k :> to.info.precise) @@ first,
                      SourceArrow(b[k].state.position, source.direction,
                                  to.info.precise))

\* the exits the pushed block has to make
PushedWalk == ExitWalk(prev, << >>, SourceArrow(PushedFrom, last.direction, HALF))

C27_InfinityResolution ==
    PushOfPlaced =>
        /\ Len(PushedWalk) <= Len(last.exits)
        /\ SubSeq(last.exits, 1, Len(PushedWalk)) = PushedWalk

\* the exit number i of the last push leaves from an Infinity block, with a
\* precise that differs from the one of the repeated visit
ScaledExit(i) ==
    /\ i > 1
    /\ prev[last.exits[i].from].proto.type = "Infinity"
    /\ LET before == last.exits[i - 1]
           st == source_to_target(prev,
                    SourceArrow(prev[before.from].state.position, before.direction,
                                before.precise))
       IN  /\ ~st.ok
           /\ prev[st.info.from].info.infinity = last.exits[i].from
           /\ st.info.precise # last.exits[i].precise

C27_Witness ==
    /\ PushOfPlaced
    /\ Pushed("true")
    /\ Len(PushedWalk) <= Len(last.exits)
    /\ SubSeq(last.exits, 1, Len(PushedWalk)) = PushedWalk
    /\ \E i \in DOMAIN last.exits : ScaledExit(i)

-----------------------------------------------------------------------------
(* C28: the order of attempts.  For an occupied target cell the pusher     *)
(* first tries to push the resident in the same direction, tries to enter  *)
(* it only after that push returned false, and tries to eat only after     *)
(* every enter failed.  So whenever the resident can be pushed, the pusher *)
(* takes the resident's cell, and is neither placed inside the resident    *)
(* nor eats it.                                                            *)

\* Algorithm::push of the resident B, as push_into calls it with A on the
\* trace, returns Ok(true)
CanPush(A, B, d) ==
    AlgorithmPush(prev, [AlgorithmNew EXCEPT !.trace = CyclePush(CycleNew, A, Unit).trace],
                  B, d).r = "true"

\* the cell ahead of the pushed block lies in its container and holds a
\* resident that can be pushed
ResidentPushed ==
    /\ PushOfPlaced
    /\ InBounds(prev, PushedFrom.container, Ahead(PushedFrom.pos, last.direction, 1))
    /\ RunKey(1) # None
    /\ CanPush(PushedKey, RunKey(1), last.direction)

\* the pusher stays where it is: the cell is claimed by a block of the push
\* cycle (confirm with cycling = true does not record the movement)
CellClaimed ==
    /\ last.cycled # << >>
    /\ blocks[PushedKey].state.position = PushedFrom
    /\ \E k \in DOMAIN blocks \ {PushedKey} :
          blocks[k].state.position =
             Inside(PushedFrom.container, Ahead(PushedFrom.pos, last.direction, 1))

\* the pushed block has tried neither to enter nor to eat
NoEnterNoEat ==
    /\ \A i \in DOMAIN last.entered : last.entered[i].by # PushedKey
    /\ \A i \in DOMAIN last.eats : last.eats[i].eat # PushedKey

C28_TakesTheCell ==
    ResidentPushed
       => /\ Pushed("true")
          /\ blocks[PushedKey].state.position =
                Inside(PushedFrom.container, Ahead(PushedFrom.pos, last.direction, 1))
          /\ NoEnterNoEat

\* C28 as amended: whenever the resident can be pushed, the push returns
\* Ok(true) and the pusher has tried neither to enter nor to eat; it takes
\* the resident's cell, unless a block of a push cycle has claimed that
\* cell, and then it stays where it is.
C28_PushBeforeEnter ==
    ResidentPushed
       => /\ Pushed("true")
          /\ \/ blocks[PushedKey].state.position =
                   Inside(PushedFrom.container, Ahead(PushedFrom.pos, last.direction, 1))
             \/ CellClaimed
          /\ NoEnterNoEat

\* a resident the pusher could have entered: it is hollow, another block,
\* and has moved on
C28_Witness ==
    /\ ResidentPushed
    /\ Pushed("true")
    /\ NoEnterNoEat
    /\ RunKey(1) # PushedKey
    /\ prev[RunKey(1)].proto.type = "Box"
    /\ prev[RunKey(1)].proto.size = <<2, 2>>
    /\ RunKey(1) \in Moved
    /\ blocks[PushedKey].state.position = prev[RunKey(1)].state.position

-----------------------------------------------------------------------------
(* C29: aliases are transparent for enter.  When the block to be entered   *)
(* is an Alias, the pusher lands inside the first non-Alias block of the   *)
(* alias's reference chain, at the same cell and with the same precise as  *)
(* if it had entered that block directly; the Alias block itself is not    *)
(* moved by the enter, and the chase ends for every alias chain.           *)

\* the first non-Alias block of the reference chain of k
RECURSIVE Referent(_, _)
Referent(b, k) ==
    IF b[k].proto.type = "Alias" THEN Referent(b, b[k].proto.reference) ELSE k

\* the cell ahead of the pushed block holds an Alias that cannot be pushed,
\* and the container is no Void
AliasAhead ==
    /\ PushOfPlaced
    /\ InBounds(prev, PushedFrom.container, Ahead(PushedFrom.pos, last.direction, 1))
    /\ RunKey(1) # None
    /\ prev[RunKey(1)].proto.type = "Alias"
    /\ ~is_void(prev[PushedFrom.container].proto)
    /\ CannotPush(PushedKey, RunKey(1), last.direction)

\* the enter calls the pushed block has made, in order
EntersOfPushed == SelectSeq(last.entered, LAMBDA e : e.by = PushedKey)

\* the first enter of the pushed block is the enter of `into` from the
\* pushed block's cell; when the cell it leads to is empty, the pushed block
\* is there afterwards
EntersDirectly(into) ==
    /\ EntersOfPushed # << >>
    /\ EntersOfPushed[1].info = EnterInfo(into, last.direction, HALF)
    /\ EntersOfPushed[1].result = enter(prev, EnterInfo(into, last.direction, HALF))
    /\ (/\ EntersOfPushed[1].result.some
        /\ position_state(prev, EntersOfPushed[1].result.next.position).state = "Empty")
          => /\ Pushed("true")
             /\ blocks[PushedKey].state.position = EntersOfPushed[1].result.next.position

C29_AliasTransparent ==
    AliasAhead
       => /\ EntersDirectly(Referent(prev, RunKey(1)))
          /\ blocks[RunKey(1)].state.position = prev[RunKey(1)].state.position

\* the alias of an alias of a hollow box: the pushed block is in the box
C29_Witness ==
    /\ AliasAhead
    /\ prev[prev[RunKey(1)].proto.reference].proto.type = "Alias"
    /\ EntersDirectly(Referent(prev, RunKey(1)))
    /\ Pushed("true")
    /\ blocks[PushedKey].state.position.container = Referent(prev, RunKey(1))

-----------------------------------------------------------------------------
(* C30: the eat candidates are tried in the reverse order of the enter     *)
(* attempts of the same push_into call (the most deeply nested first, the  *)
(* first enter target last); static candidates are skipped; the first      *)
(* candidate whose eat succeeds determines the result: the eater moves to  *)
(* that candidate's position and no later candidate is tried.              *)

RECURSIVE Reverse(_)
Reverse(s) == IF s = << >> THEN << >> ELSE Append(Reverse(Tail(s)), Head(s))

\* the eat attempts the pushed block has made, in order
EatsOfPushed == SelectSeq(last.eats, LAMBDA e : e.eat = PushedKey)

\* the blocks the pushed block has tried to enter, last attempt first,
\* without the static ones
Candidates ==
    SelectSeq(Reverse([i \in DOMAIN EntersOfPushed |-> EntersOfPushed[i].info.into]),
              LAMBDA k : ~(prev[k].proto.type \in {"Wall", "Void"}))

\* the blocks the pushed block has tried to eat, in order
Tried == [i \in DOMAIN EatsOfPushed |-> EatsOfPushed[i].ate]

C30_EatOrder ==
    last.op = "push" =>
        /\ Len(Tried) <= Len(Candidates)
        /\ Tried = SubSeq(Candidates, 1, Len(Tried))
        /\ \A i \in DOMAIN EatsOfPushed :
              IF EatsOfPushed[i].result = "true"
              THEN /\ i = Len(EatsOfPushed)
                   /\ Pushed("true")
                   /\ blocks[PushedKey].state.position = prev[Tried[i]].state.position
              ELSE /\ EatsOfPushed[i].result = "false"
                   /\ (i = Len(EatsOfPushed) /\ last.result.r \in {"true", "false"})
                         => (Pushed("false") /\ i = Len(Candidates))

-----------------------------------------------------------------------------
(* C31: the eating guard.  In a push_into call made with eating = true     *)
(* (the block B of the call is being eaten by the caller A, the target is  *)
(* the cell of A), B makes no push on the first iteration, and B never     *)
(* tries to eat A: the last eat candidate, its first enter target, is      *)
(* skipped.  So no push of the eater by the eaten block succeeds, and the  *)
(* eaten block makes no eat attempt on its eater.                          *)

C31_EatingGuard ==
    /\ \A i \in DOMAIN last.pushes :
          last.pushes[i].eating
             => /\ last.pushes[i].cycle # << >>
                /\ last.pushes[i].of = last.pushes[i].caller
                      => last.pushes[i].result # "true"
    /\ \A i \in DOMAIN last.eats :
          last.eats[i].eating
             => /\ Len(last.eats[i].cycle) >= 2
                /\ last.eats[i].ate # last.eats[i].caller

-----------------------------------------------------------------------------
(* The descent of a push along a row.  World::push(key, d) on a block of a *)
(* row calls Algorithm::push for the block, then for the resident of the   *)
(* cell ahead, and so on; every call of push_into puts its key on the      *)
(* block trace before it pushes the resident.  A call is                   *)
(*   [key, direction, trace, result]                                       *)
(* with the key to push next, the trace so far, and the result "calling"   *)
(* while the descent goes on; it ends with "true" (an empty cell, or a key *)
(* found on the trace), "err" (an orphan block), "burns" (the trace has    *)
(* grown past TRACE_BURN: the code aborts), or where the descent ends      *)
(* without a result for the push: "false" (a static resident; the caller   *)
(* goes on with enter and eat), "exit" (the edge of the container).        *)

\* the number of blocks in the row: some more than the cap of a trace
RowLength == TRACE_BURN + 4

\* a (RowLength + 1, 1) box #1, orphan, that holds the (1,1) boxes #2, #3, ..
\* in its cells (0,0), (1,0), ..; its last cell is empty
Row(n) ==
    [blocks |->
        [k \in 1 .. n + 1 |->
            IF k = 1
            THEN [BlockNew(1, Box(<<n + 1, 1>>)) EXCEPT
                     !.state.interior =
                         [c \in Cells(<<n + 1, 1>>) |-> IF c[1] < n THEN c[1] + 2 ELSE None]]
            ELSE [BlockNew(k, Box(<<1, 1>>)) EXCEPT
                     !.state.position = Inside(1, <<k - 2, 0>>)]],
     next |-> n + 2]

\* Algorithm::push(key, d) down to the push of the resident of the cell
\* ahead: is_static, orphan, source_to_target of push_from, then trace.push
\* and target_to_movement of push_into
descend_call(b, call) ==
    LET key == call.key
        st  == source_to_target(b, SourceArrow(b[key].state.position,
                                               call.direction, HALF))
        t   == CyclePush(call.trace, key, Unit)
        tm  == target_to_movement(b, key, st.target)
    IN  IF is_static(b[key].proto) THEN [call EXCEPT !.result = "false"]
        ELSE IF b[key].state.position.container = None
        THEN [call EXCEPT !.result = "err"]
        ELSE IF ~st.ok THEN [call EXCEPT !.result = "exit"]
        ELSE IF t.found THEN [call EXCEPT !.result = "true"]
        ELSE IF t.burns THEN [call EXCEPT !.trace = t.trace, !.result = "burns"]
        ELSE CASE tm.state = "Empty" ->
                    [call EXCEPT !.trace = t.trace, !.result = "true"]
               [] tm.state = "Present" ->
                    [call EXCEPT !.trace = t.trace, !.key = tm.info.into]
               [] OTHER -> [call EXCEPT !.trace = t.trace, !.result = "panic"]

\* the nested calls taken in one step of the descent
DescentStride == TRACE_BURN \div 20

\* the next n nested calls
RECURSIVE descend(_, _, _)
descend(b, call, n) ==
    IF n = 0 \/ call.result # "calling" THEN call
    ELSE descend(b, descend_call(b, call), n - 1)

\* World::push(key, direction) on a block at one end of the row
DescentInit ==
    \E key \in (2 .. 4) \cup (RowLength - 1 .. RowLength + 1), direction \in Direction :
        /\ blocks = Row(RowLength).blocks
        /\ nextKey = Row(RowLength).next
        /\ prev = Row(RowLength).blocks
        /\ last = [op |-> "push", key |-> key, direction |-> direction,
                   trace |-> CycleNew, result |-> "calling"]
        /\ steps = 0

\* the next DescentStride nested calls of the push
Descend ==
    /\ last.result = "calling"
    /\ last' = descend(blocks, last, DescentStride)
    /\ steps' = steps + 1
    /\ UNCHANGED <<blocks, nextKey, prev>>

DescentSpec == DescentInit /\ [][Descend]_vars

-----------------------------------------------------------------------------
(* C32: the cap of the cycle detectors is unreachable on well-formed       *)
(* inputs.  In a world that satisfies I1-I4 no detector used by a push     *)
(* grows past TRACE_BURN entries, so no push aborts with "Cycle burns".    *)

C32_CapUnreachable ==
    (Len(last.trace) > TRACE_BURN \/ last.result = "burns") => ~WellFormed(blocks)

-----------------------------------------------------------------------------
(* C33: errors propagate.  An error made in any nested attempt of a push   *)
(* is returned by World::push with the same kind and key; no enter or eat  *)
(* alternative is tried after it, and no movement is committed.            *)

C33_ErrorPropagates ==
    last.op = "push" =>
        /\ last.raised # << >> <=> Pushed("err")
        /\ last.raised # << >> =>
              /\ Len(last.raised) = 1
              /\ last.result.err = last.raised[1].err
              /\ Len(last.entered) = last.raised[1].entered
              /\ \A i \in last.raised[1].eats + 1 .. Len(last.eats) :
                    last.eats[i].result = "err"
              /\ \A i \in last.raised[1].pushes + 1 .. Len(last.pushes) :
                    last.pushes[i].result = "err"
              /\ blocks = prev

\* a NoEpsilon error made by the pushed block on its second enter attempt,
\* after pushes and an enter had failed, in a world that satisfies I1-I4:
\* the block it had entered is never tried as an eat candidate
C33_Witness ==
    /\ Pushed("err")
    /\ WellFormed(prev)
    /\ Len(last.raised) = 1
    /\ last.raised[1].err.kind = "NoEpsilon"
    /\ last.result.err = last.raised[1].err
    /\ last.raised[1].pushes > 0
    /\ last.raised[1].entered > 0
    /\ \E i \in DOMAIN last.entered :
          last.entered[i].by = PushedKey /\ last.entered[i].result.some
    /\ last.eats = << >>
    /\ blocks = prev

-----------------------------------------------------------------------------
(* C34: the frame of a successful push.  A push that returns Ok(true)      *)
(* changes nothing but the positions of the blocks named in its movement   *)
(* list, and at most the interior cells at their old and new positions:    *)
(* the set of live blocks, every prototype, every info, and the position   *)
(* of every block that no movement names are as before.                    *)

\* the blocks named in the movement list of the last push
Named == {last.movements[i].key : i \in DOMAIN last.movements}

C34_Frame ==
    Pushed("true") =>
        /\ DOMAIN blocks = DOMAIN prev
        /\ \A k \in DOMAIN blocks :
              /\ blocks[k].key = prev[k].key
              /\ blocks[k].proto = prev[k].proto
              /\ blocks[k].info = prev[k].info
              /\ k \notin Named => blocks[k].state.position = prev[k].state.position
              /\ DOMAIN blocks[k].state.interior = DOMAIN prev[k].state.interior
              /\ \A cell \in DOMAIN prev[k].state.interior :
                    blocks[k].state.interior[cell] # prev[k].state.interior[cell]
                       => \E j \in Named :
                             Inside(k, cell) \in {prev[j].state.position,
                                                  blocks[j].state.position}

\* a push that has moved two blocks and left a third, placed one where it
\* was, in a world in which a block has back-references
C34_Witness ==
    /\ Pushed("true")
    /\ Cardinality(Named) >= 2
    /\ Named \subseteq Moved
    /\ \E k \in DOMAIN blocks \ Named :
          /\ prev[k].state.position.container # None
          /\ ~is_static(prev[k].proto)
    /\ \E k \in DOMAIN blocks : prev[k].info.references # {}
    /\ \A k \in DOMAIN blocks :
          /\ blocks[k].info = prev[k].info
          /\ k \notin Named => blocks[k].state.position = prev[k].state.position

-----------------------------------------------------------------------------
(* C35: every precise that a source or target arrow carries during a push  *)
(* is in [0,1).  A push starts from 1/2; an exit hands on                  *)
(* (offset + precise) / extent, where offset is the coordinate of the      *)
(* block that the move leaves unchanged, 0 <= offset < extent, and extent  *)
(* is the size of the container along that axis; an enter lands in cell    *)
(* floor(precise * N) with frac(precise * N); an eat restarts at 1/2.      *)

\* 0 <= r < 1, with a positive denominator
InUnit(r) == r.denominator >= 1 /\ 0 <= r.numerator /\ r.numerator < r.denominator

\* q = (o + p) / n, as numbers
IsExitOf(q, o, p, n) ==
    q.numerator * (n * p.denominator) = (o * p.denominator + p.numerator) * q.denominator

\* the coordinate of `pos` along the edge that a move in direction d crosses
Perpendicular(pos, d) == IF d \in {"North", "South"} THEN pos[1] ELSE pos[2]

\* the size of proto along that edge
EdgeLength(proto, d) == IF d \in {"North", "South"} THEN width(proto) ELSE height(proto)

C35_PreciseInUnit ==
    last.op = "push" =>
        /\ \A i \in DOMAIN last.arrows :
              LET a == last.arrows[i]
                  o == Perpendicular(a.source.position.pos, a.source.direction)
                  n == EdgeLength(prev[a.source.position.container].proto, a.source.direction)
              IN  /\ InUnit(a.source.precise)
                  /\ a.first => a.source.precise = HALF
                  /\ a.out.ok => a.out.target.precise = a.source.precise
                  /\ ~a.out.ok =>
                        /\ 0 <= o /\ o < n
                        /\ InUnit(a.out.info.precise)
                        /\ IsExitOf(a.out.info.precise, o, a.source.precise, n)
        /\ \A i \in DOMAIN last.exits : InUnit(last.exits[i].precise)
        /\ \A i \in DOMAIN last.intos :
              /\ InUnit(last.intos[i].target.precise)
              /\ last.intos[i].eating => last.intos[i].target.precise = HALF
        /\ \A i \in DOMAIN last.entered :
              LET e == last.entered[i]
                  n == EdgeLength(prev[e.info.into].proto, e.info.direction)
              IN  /\ InUnit(e.info.precise)
                  /\ e.result.some =>
                        LET o == Perpendicular(e.result.next.position.pos, e.info.direction)
                        IN  /\ InUnit(e.result.next.precise)
                            /\ IsExitOf(e.info.precise, o, e.result.next.precise, n)

\* a push in which a block has left a container of extent 2 or more from a
\* cell with offset 1 or more, a block has entered a block with a precise
\* other than 1/2, and a block has been offered to an eater
C35_Witness ==
    /\ last.op = "push"
    /\ WellFormed(prev)
    /\ \E i \in DOMAIN last.arrows :
          /\ ~last.arrows[i].out.ok
          /\ Perpendicular(last.arrows[i].source.position.pos,
                           last.arrows[i].source.direction) >= 1
          /\ last.arrows[i].out.info.precise # HALF
    /\ \E i \in DOMAIN last.entered :
          /\ last.entered[i].result.some
          /\ last.entered[i].info.precise # HALF
          /\ last.entered[i].result.next.precise # HALF
    /\ \E i \in DOMAIN last.intos : last.intos[i].eating

-----------------------------------------------------------------------------
(* The Rational type on its own: a behaviour makes a Rational with         *)
(* Rational::new and applies operations to the value it holds.  last is    *)
(* [op, left, right, nat, offset, q, whole, result]: the operation, its    *)
(* left operand (for new: the numerator and denominator as given), its     *)
(* Rational or natural right operand, and the result; split leaves the     *)
(* integer part in whole.  exit_enter is what a precise goes through when  *)
(* a block leaves a container of extent nat at cell offset and a block     *)
(* enters it again: q = (left + offset) / nat, then (q * nat).split().     *)

Naturals0 == 0 .. MaxNat

\* the values Rational::new makes from the naturals of the model
Rationals == {RationalNew(n, d) : n \in Naturals0, d \in 1 .. MaxNat}

ZERO == unchecked_new(0, 1)

Applied(op, left, right, nat, result) ==
    [op |-> op, left |-> left, right |-> right, nat |-> nat, offset |-> 0,
     q |-> ZERO, whole |-> 0, result |-> result]

RationalInit ==
    \E n \in Naturals0, d \in 1 .. MaxNat :
        /\ blocks = << >>
        /\ nextKey = 1
        /\ prev = << >>
        /\ last = Applied("new", unchecked_new(n, d), ZERO, 0, RationalNew(n, d))
        /\ steps = 0

\* the operation is recorded with its result, which is the value held next
Apply(applied) ==
    /\ last' = applied
    /\ steps' = steps + 1
    /\ UNCHANGED <<blocks, nextKey, prev>>

Add(s) ==
    /\ steps < MaxOps
    /\ Apply(Applied("add", last.result, s, 0, RationalAdd(last.result, s)))

Sub(s) ==
    /\ steps < MaxOps
    /\ s.numerator * last.result.denominator <= last.result.numerator * s.denominator
    /\ Apply(Applied("sub", last.result, s, 0, RationalSub(last.result, s)))

Mul(s) ==
    /\ steps < MaxOps
    /\ Apply(Applied("mul", last.result, s, 0, RationalMul(last.result, s)))

Div(s) ==
    /\ steps < MaxOps
    /\ s.numerator # 0
    /\ Apply(Applied("div", last.result, s, 0, RationalDiv(last.result, s)))

AddInt(k) ==
    /\ steps < MaxOps
    /\ Apply(Applied("add_usize", last.result, ZERO, k, RationalAddInt(last.result, k)))

SubInt(k) ==
    /\ steps < MaxOps
    /\ k * last.result.denominator <= last.result.numerator
    /\ Apply(Applied("sub_usize", last.result, ZERO, k, RationalSubInt(last.result, k)))

MulInt(k) ==
    /\ steps < MaxOps
    /\ Apply(Applied("mul_usize", last.result, ZERO, k, RationalMulInt(last.result, k)))

DivInt(k) ==
    /\ steps < MaxOps
    /\ k # 0
    /\ Apply(Applied("div_usize", last.result, ZERO, k, RationalDivInt(last.result, k)))

Split ==
    /\ steps < MaxOps
    /\ Apply([Applied("split", last.result, ZERO, 0, split(last.result)[2])
                 EXCEPT !.whole = split(last.result)[1]])

\* the precise held leaves a container of extent n at cell o, and enters it
ExitEnter(o, n) ==
    /\ steps < MaxOps
    /\ last.result.numerator < last.result.denominator
    /\ o < n
    /\ \E q \in {RationalDivInt(RationalAddInt(last.result, o), n)} :
          Apply([Applied("exit_enter", last.result, ZERO, n, split(RationalMulInt(q, n))[2])
                    EXCEPT !.offset = o, !.q = q,
                           !.whole = split(RationalMulInt(q, n))[1]])

RationalNext ==
    \/ \E s \in Rationals : Add(s) \/ Sub(s) \/ Mul(s) \/ Div(s)
    \/ \E k \in Naturals0 : AddInt(k) \/ SubInt(k) \/ MulInt(k) \/ DivInt(k)
    \/ Split
    \/ \E o \in Naturals0, n \in 1 .. MaxNat : ExitEnter(o, n)

RationalSpec == RationalInit /\ [][RationalNext]_vars

-----------------------------------------------------------------------------
(* C36: the round trip of a precise through an exit and an enter.  For an  *)
(* extent N >= 1, a cell offset o < N and a reduced p in [0,1),            *)
(* ((p + o) / N * N).split() is (o, p), with p as the same pair of         *)
(* numerator and denominator.                                              *)

C36_RoundTrip ==
    last.op = "exit_enter" =>
        /\ last.whole = last.offset
        /\ last.result = last.left

\* a round trip from a cell other than the first, of a precise other than
\* 0, in which the division has cancelled a common factor
C36_Witness ==
    /\ last.op = "exit_enter"
    /\ last.offset >= 1
    /\ last.left.numerator >= 1
    /\ last.left.denominator >= 3
    /\ last.q.denominator # last.left.denominator * last.nat
    /\ last.whole = last.offset
    /\ last.result = last.left

-----------------------------------------------------------------------------
(* C37: Rationals are always reduced.  For reduced operands, the result of *)
(* Rational::new, of +, -, *, / with a Rational, of +, -, *, / with a      *)
(* natural (where the code does not abort) and the fractional part that    *)
(* split returns have a denominator >= 1 that shares no factor with the    *)
(* numerator (zero is 0/1); hence two Rationals are the same pair exactly  *)
(* when they are the same number.                                          *)

\* the denominator is >= 1 and no number from 2 divides both
Reduced(r) ==
    /\ r.denominator >= 1
    /\ \A g \in 2 .. r.denominator :
          ~(r.numerator % g = 0 /\ r.denominator % g = 0)

\* r and s are the same number
SameNumber(r, s) == r.numerator * s.denominator = s.numerator * r.denominator

C37_AlwaysReduced ==
    /\ Reduced(last.result)
    /\ Reduced(last.q)
    /\ last.op # "new" => Reduced(last.left) /\ Reduced(last.right)
    /\ last.op = "new" => SameNumber(last.result, last.left)
    /\ last.op \in {"add", "sub", "mul", "div"} =>
          (last.left = last.right <=> SameNumber(last.left, last.right))
    /\ \A s \in Rationals : last.result = s <=> SameNumber(last.result, s)

\* a division of a Rational by a Rational in which numerator and
\* denominator of the quotient as computed share a factor
C37_Witness ==
    /\ last.op = "div"
    /\ steps = MaxOps
    /\ last.left.denominator >= 2
    /\ last.right.denominator >= 2
    /\ last.left.numerator * last.right.denominator # last.result.numerator
    /\ last.left # last.right
    /\ last.result.denominator >= 2
    /\ Reduced(last.result)

-----------------------------------------------------------------------------
(* The cycle detector on its own: a behaviour makes a Cycle with           *)
(* Cycle::new and calls push and pop on it.  last is                       *)
(* [op, key, value, before, trace, returned]: the call, the trace before   *)
(* and after it, and the Option it returns.                                *)

CycleKeys == 1 .. MaxKeys
CycleValues == {"a", "b"}

Some(value) == [some |-> TRUE, value |-> value]
Absent == [some |-> FALSE, value |-> Unit]

CycleInit ==
    /\ blocks = << >>
    /\ nextKey = 1
    /\ prev = << >>
    /\ last = [op |-> "new", key |-> None, value |-> Unit, before |-> CycleNew,
               trace |-> CycleNew, returned |-> Absent]
    /\ steps = 0

\* Cycle::push(key, value); a call that burns aborts the program
CycleDoPush(key, value) ==
    /\ \E out \in {CyclePush(last.trace, key, value)} :
          /\ ~out.burns
          /\ last' = [op |-> "push", key |-> key, value |-> value,
                      before |-> last.trace, trace |-> out.trace,
                      returned |-> IF out.found THEN Some(out.value) ELSE Absent]
    /\ UNCHANGED <<blocks, nextKey, prev, steps>>

\* Cycle::pop()
CycleDoPop ==
    /\ last' = [op |-> "pop", key |-> None, value |-> Unit, before |-> last.trace,
                trace |-> IF last.trace = << >> THEN << >> ELSE CyclePop(last.trace),
                returned |-> IF last.trace = << >> THEN Absent
                             ELSE Some(CycleLast(last.trace))]
    /\ UNCHANGED <<blocks, nextKey, prev, steps>>

CycleNext ==
    \/ \E key \in CycleKeys, value \in CycleValues : CycleDoPush(key, value)
    \/ CycleDoPop

CycleSpec == CycleInit /\ [][CycleNext]_vars

-----------------------------------------------------------------------------
(* C38: the cycle detector.  push(k, v) on a trace that has an entry with  *)
(* key k returns the value stored in that entry and leaves the trace as it *)
(* was; otherwise it appends (k, v) at the end and returns nothing.  pop   *)
(* removes and returns the last entry.  After any sequence of push and pop *)
(* calls the keys of the trace are pairwise distinct.                      *)

C38_Detector ==
    /\ last.op = "push" =>
          IF \E i \in DOMAIN last.before : last.before[i][1] = last.key
          THEN /\ last.trace = last.before
               /\ last.returned.some
               /\ \E i \in DOMAIN last.before :
                     /\ last.before[i][1] = last.key
                     /\ last.before[i][2] = last.returned.value
          ELSE /\ last.trace = Append(last.before, <<last.key, last.value>>)
               /\ ~last.returned.some
    /\ last.op = "pop" /\ last.before # << >> =>
          /\ last.before = Append(last.trace, last.returned.value)
          /\ last.returned.some
    /\ last.op = "pop" /\ last.before = << >> =>
          /\ last.trace = << >>
          /\ ~last.returned.some
    /\ \A i, j \in DOMAIN last.trace :
          last.trace[i][1] = last.trace[j][1] => i = j

\* a push of a key that an entry other than the last one holds with another
\* value: that value is returned and the trace is as before
C38_Witness ==
    /\ last.op = "push"
    /\ Len(last.before) >= 2
    /\ last.before[1][1] = last.key
    /\ last.before[1][2] # last.value
    /\ last.returned = Some(last.before[1][2])
    /\ last.trace = last.before

-----------------------------------------------------------------------------
(* C39: at commit time the movement list names each block at most once and *)
(* each target position at most once.  confirm records a movement unless   *)
(* cycling is true and the target is already in positioned; a movement     *)
(* confirmed with cycling = false is the first one recorded; and a block   *)
(* has at most one push_into call on the call stack.                       *)

\* no two entries of the sequence s have the same field f
Distinct(s, f(_)) == \A i, j \in DOMAIN s : f(s[i]) = f(s[j]) => i = j

KeyOf(movement) == movement.key
TargetOf(movement) == movement.target
FrameOf(entry) == entry[1]

\* the targets recorded before the i-th call of confirm
Claimed(i) ==
    {last.movements[j].target : j \in 1 .. last.confirmed[i].at}

C39_MovementsDistinct ==
    last.op = "push" =>
        /\ Distinct(last.movements, KeyOf)
        /\ Distinct(last.movements, TargetOf)
        /\ last.positioned = {last.movements[i].target : i \in DOMAIN last.movements}
        /\ \A i \in DOMAIN last.confirmed :
              LET c == last.confirmed[i]
              IN  /\ c.recorded <=> ~(c.cycling /\ c.movement.target \in Claimed(i))
                  /\ c.recorded => last.movements[c.at + 1] = c.movement
                  /\ ~c.cycling => c.at = 0 /\ i = 1
        /\ Distinct(last.trace, FrameOf)
        /\ \A i \in DOMAIN last.intos : Distinct(last.intos[i].trace, FrameOf)
        /\ Pushed("true") =>
              /\ last.confirmed # << >>
              /\ \A k \in Named : \E i \in DOMAIN last.movements :
                    /\ last.movements[i].key = k
                    /\ blocks[k].state.position = last.movements[i].target

\* a committed push with two movements or more, the first confirmed with
\* cycling = false, and one more that confirm has dropped
C39_Witness ==
    /\ Pushed("true")
    /\ Len(last.movements) >= 2
    /\ ~last.confirmed[1].cycling
    /\ \E i \in DOMAIN last.confirmed : ~last.confirmed[i].recorded

-----------------------------------------------------------------------------
(* C40: failed alternatives leave no trace.  When a nested call of push,   *)
(* push_from or push_into returns Ok(false), the movement list and the     *)
(* positioned set are empty and the trace is what it was at the entry of   *)
(* that call.  A result of true of a nested call goes up to the top-level  *)
(* call with no further alternative explored, so that every committed      *)
(* movement belongs to the one successful branch.                          *)

\* the nested call with the record `returned` has left nothing behind
NoTrace(returned) ==
    /\ returned.movements = << >>
    /\ returned.positioned = {}
    /\ returned.trace = returned.entry

\* nothing has been tried since the nested call with the record `returned`
\* has returned: no push_into call, no enter, and no nested call that has
\* ended with anything but true
NothingTriedSince(returned) ==
    /\ Len(last.intos) = returned.intos
    /\ Len(last.entered) = returned.entered
    /\ \A i \in returned.pushes + 1 .. Len(last.pushes) : last.pushes[i].result = "true"
    /\ \A i \in returned.eats + 1 .. Len(last.eats) : last.eats[i].result = "true"
    /\ last.result.r = "true"

C40_NoTraceOfFailure ==
    last.op = "push" =>
        /\ \A i \in DOMAIN last.pushes :
              /\ last.pushes[i].result = "false" => NoTrace(last.pushes[i].returned)
              /\ last.pushes[i].result = "true" =>
                    NothingTriedSince(last.pushes[i].returned)
        /\ \A i \in DOMAIN last.eats :
              /\ last.eats[i].result = "false" => NoTrace(last.eats[i].returned)
              /\ last.eats[i].result = "true" =>
                    NothingTriedSince(last.eats[i].returned)
        /\ Pushed("false") =>
              last.movements = << >> /\ last.positioned = {} /\ last.trace = CycleNew
        /\ \A i \in DOMAIN last.movements :
              \E j \in DOMAIN last.trace : last.trace[j][1] = last.movements[i].key

\* a committed push of two movements or more, made after a nested push and
\* an eat attempt had failed, and with a nested push that succeeded
C40_Witness ==
    /\ Pushed("true")
    /\ WellFormed(prev)
    /\ Len(last.movements) >= 2
    /\ \E i \in DOMAIN last.pushes :
          /\ last.pushes[i].result = "false"
          /\ last.pushes[i].returned.intos >= 2
          /\ Len(last.pushes[i].returned.entry) >= 2
    /\ \E i \in DOMAIN last.eats : last.eats[i].result = "false"
    /\ \E i \in DOMAIN last.pushes : last.pushes[i].result = "true"
====
